---- MODULE Spec2Model ----
(***************************************************************************)
(* Configuration validation and subproject resolution of iceforge.        *)
(*                                                                         *)
(* The state is one loaded BuildConfig (build settings, the three         *)
(* dependency collections, the subproject list), the outcome of the       *)
(* external probes the validators spawn, and the result of the last       *)
(* validator call.  Every validator is a pure function of the config and  *)
(* of the probe outcomes; it is written below as an operator that follows *)
(* the Rust code statement by statement (loops become recursion over the  *)
(* loop index, `?` and `return` become the early exits of the recursion). *)
(***************************************************************************)
EXTENDS Integers, Sequences, FiniteSets, TLC

VARIABLES
    build,          \* BuildSettings: compiler and c_standard (positioned values)
    env,            \* what the external probes answer in this run
    dependencies,   \* Dependencies: [remote, pkg_config, manual]
    subprojects,    \* Vec<SubProject> of the BuildConfig
    overrides,      \* Vec<Override> of the BuildConfig (empty when absent)
    custom_build_rules, \* Vec<CustomBuildRule> of the BuildConfig (empty when absent)
    op,             \* which validator the run is about: "subprojects", "dependencies", "config"
    pc,             \* "loaded" before the validator ran, "done" after it returned
    result,         \* what the validator returned (Ok / Err / Panic)
    spawned,        \* the external processes the validator spawned, in order
    applied,        \* how many times the subproject list was replaced by a build order
    asked,          \* the name the last has_dependency call was given, if any
    iteration,      \* a Dependencies value being iterated: what is left and what was yielded
    traversal       \* the two depth-first passes of a resolver call in progress, if any

vars == <<build, env, dependencies, subprojects, overrides, custom_build_rules, op, pc, result, spawned, applied, asked, iteration, traversal>>

----------------------------------------------------------------------------
(* Bounds of the model.                                                    *)

\* Most subprojects in a config.
MaxSubs == 3
\* Most dependency references in a config, over all its subprojects.
MaxRefs == 3
\* Most times a config is re-validated after its order was replaced.
MaxApply == 2

\* The names a subproject, a dependency or a reference can carry.
NameSeq == <<"a", "b", "c">>
Names == {NameSeq[i] : i \in 1..Len(NameSeq)}
\* The alphabetical rank of a name.
Rank(name) == CHOOSE i \in 1..Len(NameSeq) : NameSeq[i] = name

----------------------------------------------------------------------------
(* Option, Result, Spanned, Error.                                         *)

None == <<>>
Some(x) == <<x>>
IsSome(o) == o # <<>>
Unwrap(o) == o[1]

Ok(v) == [kind |-> "Ok", value |-> v]
Err(e) == [kind |-> "Err", error |-> e]
Panic(m) == [kind |-> "Panic", message |-> m]
IsOk(r) == r.kind = "Ok"
IsErr(r) == r.kind = "Err"
IsPanic(r) == r.kind = "Panic"
\* A loop body that neither returned nor panicked: the loop goes on.
Continue == [kind |-> "Continue"]

\* toml::Spanned<String>: a value and the byte range it was parsed from.
\* The range is modelled by its start offset, unique per parsed value.
Spanned(value, span) == [v |-> value, span |-> span]

AdditionalInfo(span, message) == [span |-> span, message |-> message]

Error(error_type, message, span, additional_info) ==
    [error_type |-> error_type, message |-> message,
     span |-> span, additional_info |-> additional_info]

\* HashSet<Spanned<String>>: Spanned hashes and compares by its value alone, so a
\* set holds at most one element per value; insert keeps the element already there.
HashContains(set, x) == \E y \in set : y.v = x.v
HashInsert(set, x) == IF HashContains(set, x) THEN set ELSE set \cup {x}
HashGet(set, x) == CHOOSE y \in set : y.v = x.v

\* Vec<String>::join(sep)
RECURSIVE Join(_, _)
Join(strs, sep) ==
    IF Len(strs) = 0 THEN ""
    ELSE IF Len(strs) = 1 THEN strs[1]
    ELSE strs[1] \o sep \o Join(Tail(strs), sep)

\* Vec::reverse
Reverse(s) == [i \in 1..Len(s) |-> s[Len(s) + 1 - i]]

\* Vec::pop: the vector without its last element
PopLast(s) == SubSeq(s, 1, Len(s) - 1)

----------------------------------------------------------------------------
(* Dependencies: the draining iterator and has_dependency.                 *)

\* Iterator::next for Dependencies: pops the LAST remote entry, then the last
\* pkg-config entry, then the last manual entry.  None when all three are empty.
\* Returns the item (an Option of [tag, dep]) and the collection left.
\* Iterator::next that looks at the pkg-config entries before the remote ones.
DependenciesNext_pkg_config_first(self) ==
    IF Len(self.pkg_config) > 0 THEN
        [item |-> Some([tag |-> "PkgConfig", dep |-> self.pkg_config[Len(self.pkg_config)]]),
         self |-> [self EXCEPT !.pkg_config = PopLast(@)]]
    ELSE IF Len(self.remote) > 0 THEN
        [item |-> Some([tag |-> "Remote", dep |-> self.remote[Len(self.remote)]]),
         self |-> [self EXCEPT !.remote = PopLast(@)]]
    ELSE IF Len(self.manual) > 0 THEN
        [item |-> Some([tag |-> "Manual", dep |-> self.manual[Len(self.manual)]]),
         self |-> [self EXCEPT !.manual = PopLast(@)]]
    ELSE [item |-> None, self |-> self]

DependenciesNext(self) ==
    IF Len(self.remote) > 0 THEN
        [item |-> Some([tag |-> "Remote", dep |-> self.remote[Len(self.remote)]]),
         self |-> [self EXCEPT !.remote = PopLast(@)]]
    ELSE IF Len(self.pkg_config) > 0 THEN
        [item |-> Some([tag |-> "PkgConfig", dep |-> self.pkg_config[Len(self.pkg_config)]]),
         self |-> [self EXCEPT !.pkg_config = PopLast(@)]]
    ELSE IF Len(self.manual) > 0 THEN
        [item |-> Some([tag |-> "Manual", dep |-> self.manual[Len(self.manual)]]),
         self |-> [self EXCEPT !.manual = PopLast(@)]]
    ELSE [item |-> None, self |-> self]

\* has_dependency: `for dep in self.clone()`; every arm compares the entry's name.
RECURSIVE has_dependency_loop(_, _)
has_dependency_loop(iter, name) ==
    LET n == DependenciesNext(iter) IN
    IF ~IsSome(n.item) THEN FALSE
    ELSE IF Unwrap(n.item).dep.v.name.v = name THEN TRUE
    ELSE has_dependency_loop(n.self, name)

\* has_dependency that looks at the remote entries only.
has_dependency_remote_only(self, name) ==
    \E i \in 1..Len(self.remote) : self.remote[i].v.name.v = name

has_dependency(self, name) == has_dependency_loop(self, name)

----------------------------------------------------------------------------
(* Dependencies::check_dependencies.                                       *)
(* A RemoteDependency is [name, version, source, include_name, build_method, *)
(* build_command, build_output]; a PkgConfigDependency [name,                *)
(* pkg_config_query]; a ManualDependency [name].  Each entry is Spanned.     *)

\* The value of an Option<Spanned<String>>, without its span.
OptionValue(o) == IF IsSome(o) THEN Some(Unwrap(o).v) ELSE None

\* The comparison with the version left out of the key.
RemoteInfoEq_url_only(x, y) == x.url.v = y.url.v

\* RemoteInfo derives Eq and Hash from url and version, which compare by value.
RemoteInfoEq(x, y) == x.url.v = y.url.v /\ OptionValue(x.version) = OptionValue(y.version)
UrlContains(url_set, info) == \E y \in url_set : RemoteInfoEq(y, info)
UrlInsert(url_set, info) == IF UrlContains(url_set, info) THEN url_set ELSE url_set \cup {info}
UrlGet(url_set, info) == CHOOSE y \in url_set : RemoteInfoEq(y, info)

\* What `pkg-config --exists query` does in this run: it cannot be spawned
\* ("spawn_error"), or it exits with a code ("exit0", "exit1").
ProbeOutcomes == {"exit0", "exit1", "spawn_error"}
PkgConfigProbe(query) == [cmd |-> "pkg-config", arg |-> query]

\* The sets check_dependencies fills while it goes through the entries.
NoSets == [url_set |-> {}, name_set |-> {}, include_name_set |-> {}, spawned |-> <<>>]

\* The arm of a remote entry.  Each arm returns [res, st]: res is Continue or the
\* error returned, st the sets after the arm.
\* The arm of a remote entry with the name check before the source check.
CheckRemote_name_first(remote, st) ==
    LET remote_info == [url |-> remote.v.source, version |-> remote.v.version]
        st1 == [st EXCEPT !.name_set = HashInsert(@, remote.v.name)]
        st2 == [st1 EXCEPT !.url_set = UrlInsert(@, remote_info)]
        st3 == IF IsSome(remote.v.include_name)
               THEN [st2 EXCEPT !.include_name_set =
                                   HashInsert(@, Unwrap(remote.v.include_name))]
               ELSE st2
    IN
    IF HashContains(st.name_set, remote.v.name) THEN
        [res |-> Err(Error("DuplicateDependencyName", "Duplicate dependency name",
                           Some(remote.v.name.span),
                           Some(AdditionalInfo(HashGet(st.name_set, remote.v.name).span,
                                               "Previously defined here")))),
         st |-> st]
    ELSE IF UrlContains(st.url_set, remote_info) THEN
        [res |-> Err(Error("DuplicateDependencySource",
                           "Duplicate dependency url with same versions",
                           Some(remote.v.source.span),
                           Some(AdditionalInfo(UrlGet(st.url_set, remote_info).url.span,
                                               "Previously defined here")))),
         st |-> st1]
    ELSE IF /\ IsSome(remote.v.include_name)
            /\ HashContains(st2.include_name_set, Unwrap(remote.v.include_name)) THEN
        [res |-> Err(Error("DuplicateDependencyIncludeName",
                           "Duplicate dependency include name",
                           Some(Unwrap(remote.v.include_name).span),
                           Some(AdditionalInfo(
                                    HashGet(st2.include_name_set,
                                            Unwrap(remote.v.include_name)).span,
                                    "Previously defined here")))),
         st |-> st2]
    ELSE IF IsSome(remote.v.build_method) /\ Unwrap(remote.v.build_method) = "Custom" THEN
        IF ~IsSome(remote.v.build_command) THEN
            [res |-> Err(Error("CustomBuildMissing",
                               "Custom build method missing build_command",
                               Some(remote.span), None)),
             st |-> st3]
        ELSE [res |-> Continue, st |-> st3]
    ELSE IF IsSome(remote.v.build_method) /\ IsSome(remote.v.build_output) THEN
        [res |-> Err(Error("ExtraFieldNonCustomBuild",
                           "Non-Custom build method has build_output",
                           Some(Unwrap(remote.v.build_output).span), None)),
         st |-> st3]
    ELSE IF IsSome(remote.v.build_method) /\ IsSome(remote.v.build_command) THEN
        [res |-> Err(Error("ExtraFieldNonCustomBuild",
                           "non-Custom build method has build_command",
                           Some(Unwrap(remote.v.build_command).span), None)),
         st |-> st3]
    ELSE [res |-> Continue, st |-> st3]

\* The arm of a remote entry: source and version, name, include name, build fields.
CheckRemote(remote, st) ==
    LET remote_info == [url |-> remote.v.source, version |-> remote.v.version]
        st1 == [st EXCEPT !.url_set = UrlInsert(@, remote_info)]
        st2 == [st1 EXCEPT !.name_set = HashInsert(@, remote.v.name)]
        st3 == IF IsSome(remote.v.include_name)
               THEN [st2 EXCEPT !.include_name_set =
                                   HashInsert(@, Unwrap(remote.v.include_name))]
               ELSE st2
    IN
    IF UrlContains(st.url_set, remote_info) THEN
        [res |-> Err(Error("DuplicateDependencySource",
                           "Duplicate dependency url with same versions",
                           Some(remote.v.source.span),
                           Some(AdditionalInfo(UrlGet(st.url_set, remote_info).url.span,
                                               "Previously defined here")))),
         st |-> st]
    ELSE IF HashContains(st1.name_set, remote.v.name) THEN
        [res |-> Err(Error("DuplicateDependencyName", "Duplicate dependency name",
                           Some(remote.v.name.span),
                           Some(AdditionalInfo(HashGet(st1.name_set, remote.v.name).span,
                                               "Previously defined here")))),
         st |-> st1]
    ELSE IF /\ IsSome(remote.v.include_name)
            /\ HashContains(st2.include_name_set, Unwrap(remote.v.include_name)) THEN
        [res |-> Err(Error("DuplicateDependencyIncludeName",
                           "Duplicate dependency include name",
                           Some(Unwrap(remote.v.include_name).span),
                           Some(AdditionalInfo(
                                    HashGet(st2.include_name_set,
                                            Unwrap(remote.v.include_name)).span,
                                    "Previously defined here")))),
         st |-> st2]
    ELSE IF IsSome(remote.v.build_method) /\ Unwrap(remote.v.build_method) = "Custom" THEN
        IF ~IsSome(remote.v.build_command) THEN
            [res |-> Err(Error("CustomBuildMissing",
                               "Custom build method missing build_command",
                               Some(remote.span), None)),
             st |-> st3]
        ELSE [res |-> Continue, st |-> st3]
    ELSE IF IsSome(remote.v.build_method) /\ IsSome(remote.v.build_output) THEN
        [res |-> Err(Error("ExtraFieldNonCustomBuild",
                           "Non-Custom build method has build_output",
                           Some(Unwrap(remote.v.build_output).span), None)),
         st |-> st3]
    ELSE IF IsSome(remote.v.build_method) /\ IsSome(remote.v.build_command) THEN
        [res |-> Err(Error("ExtraFieldNonCustomBuild",
                           "non-Custom build method has build_command",
                           Some(Unwrap(remote.v.build_command).span), None)),
         st |-> st3]
    ELSE [res |-> Continue, st |-> st3]

\* The arm of a pkg-config entry: the name, then the probe.
\* The arm of a pkg-config entry with the probe run before the name check.
CheckPkgConfig_probe_first(pkg_config, st, probes) ==
    LET st1 == [st EXCEPT
                   !.spawned = Append(@, PkgConfigProbe(pkg_config.v.pkg_config_query.v))]
    IN  IF probes[pkg_config.v.pkg_config_query.v] # "exit0" THEN
            [res |-> Err(Error("InvalidPkgConfigQuery", "Pkg-config dependency not found",
                               Some(pkg_config.v.pkg_config_query.span), None)),
             st |-> st1]
        ELSE IF HashContains(st.name_set, pkg_config.v.name) THEN
            [res |-> Err(Error("DuplicateDependencyName", "Duplicate dependency name",
                               Some(pkg_config.v.name.span),
                               Some(AdditionalInfo(
                                        HashGet(st.name_set, pkg_config.v.name).span,
                                        "Previously defined here")))),
             st |-> st1]
        ELSE [res |-> Continue,
              st |-> [st1 EXCEPT !.name_set = HashInsert(@, pkg_config.v.name)]]

CheckPkgConfig(pkg_config, st, probes) ==
    IF HashContains(st.name_set, pkg_config.v.name) THEN
        [res |-> Err(Error("DuplicateDependencyName", "Duplicate dependency name",
                           Some(pkg_config.v.name.span),
                           Some(AdditionalInfo(HashGet(st.name_set, pkg_config.v.name).span,
                                               "Previously defined here")))),
         st |-> st]
    ELSE
        LET st1 == [st EXCEPT
                       !.name_set = HashInsert(@, pkg_config.v.name),
                       !.spawned = Append(@, PkgConfigProbe(pkg_config.v.pkg_config_query.v))]
        IN  IF probes[pkg_config.v.pkg_config_query.v] # "exit0" THEN
                [res |-> Err(Error("InvalidPkgConfigQuery", "Pkg-config dependency not found",
                                   Some(pkg_config.v.pkg_config_query.span), None)),
                 st |-> st1]
            ELSE [res |-> Continue, st |-> st1]

\* The arm of a manual entry without its name check.
CheckManual_unchecked(manual, st) ==
    [res |-> Continue, st |-> st]

\* The arm of a manual entry that reports a repeated name without the earlier
\* definition.
CheckManual_without_secondary(manual, st) ==
    IF HashContains(st.name_set, manual.v.name) THEN
        [res |-> Err(Error("DuplicateDependencyName", "Duplicate dependency name",
                           Some(manual.v.name.span), None)),
         st |-> st]
    ELSE [res |-> Continue, st |-> [st EXCEPT !.name_set = HashInsert(@, manual.v.name)]]

\* The arm of a manual entry: the name only.
CheckManual(manual, st) ==
    IF HashContains(st.name_set, manual.v.name) THEN
        [res |-> Err(Error("DuplicateDependencyName", "Duplicate dependency name",
                           Some(manual.v.name.span),
                           Some(AdditionalInfo(HashGet(st.name_set, manual.v.name).span,
                                               "Previously defined here")))),
         st |-> st]
    ELSE [res |-> Continue, st |-> [st EXCEPT !.name_set = HashInsert(@, manual.v.name)]]

\* `for dep in self.clone() { match dep { .. } }`: returns [res, spawned].
RECURSIVE check_dependencies_loop(_, _, _)
check_dependencies_loop(iter, st, probes) ==
    LET n == DependenciesNext(iter) IN
    IF ~IsSome(n.item) THEN [res |-> Ok(<<>>), spawned |-> st.spawned]
    ELSE LET item == Unwrap(n.item)
             r == IF item.tag = "Remote" THEN CheckRemote(item.dep, st)
                  ELSE IF item.tag = "PkgConfig" THEN CheckPkgConfig(item.dep, st, probes)
                  ELSE CheckManual(item.dep, st)
         IN  IF r.res = Continue THEN check_dependencies_loop(n.self, r.st, probes)
             ELSE [res |-> r.res, spawned |-> r.st.spawned]

\* check_dependencies under the probe outcomes of the run.
check_dependencies(self, probes) == check_dependencies_loop(self, NoSets, probes)

----------------------------------------------------------------------------
(* SubProject: [name: Spanned<String>, type, dependencies: Option<Vec<Spanned<  *)
(* SubProjectDependency>>>]; a SubProjectDependency is [form, name] with form  *)
(* "Named" or "Detailed" (the imports of a Detailed reference are never read). *)

IsLinkable(subproject) == subproject.type = "Library" \/ subproject.type = "HeaderOnly"

\* check_duplicate_names: Ok(lib_set) or Err(DuplicateSubprojectName).
RECURSIVE check_duplicate_names_loop(_, _, _, _)
check_duplicate_names_loop(selfs, i, name_set, lib_set) ==
    IF i > Len(selfs) THEN Ok(lib_set)
    ELSE LET subproject == selfs[i] IN
        IF HashContains(name_set, subproject.name) THEN
            Err(Error("DuplicateSubprojectName",
                      "Duplicate subproject name: " \o subproject.name.v,
                      Some(subproject.name.span),
                      Some(AdditionalInfo(HashGet(name_set, subproject.name).span,
                                          "Previous subproject with same name: "
                                              \o subproject.name.v))))
        ELSE check_duplicate_names_loop(
                selfs, i + 1, HashInsert(name_set, subproject.name),
                IF IsLinkable(subproject) THEN lib_set \cup {subproject.name.v}
                                          ELSE lib_set)

check_duplicate_names(selfs) == check_duplicate_names_loop(selfs, 1, {}, {})

\* One reference of check_subproject_dependencies' inner loop.  Continue goes on
\* to the next reference; anything else is what the whole function returns.
CheckReference(dep, deps, lib_set) ==
    IF dep.v.form = "Named" THEN
        IF ~has_dependency(deps, dep.v.name) /\ dep.v.name \notin lib_set THEN
            Err(Error("InvalidSubprojectDependency",
                      "Invalid dependency: " \o dep.v.name, Some(dep.span), None))
        ELSE Continue
    ELSE
        IF has_dependency(deps, dep.v.name) THEN Ok(<<>>)
        ELSE IF dep.v.name \notin lib_set THEN
            Err(Error("InvalidSubprojectDependency",
                      "Invalid dependency: " \o dep.v.name, Some(dep.span), None))
        ELSE Panic("How did we get here?")

\* check_subproject_dependencies: the two nested loops, i over the subprojects and
\* j over the references of subproject i.
RECURSIVE check_subproject_dependencies_loop(_, _, _, _, _)
check_subproject_dependencies_loop(selfs, i, j, deps, lib_set) ==
    IF i > Len(selfs) THEN Ok(<<>>)
    ELSE IF ~IsSome(selfs[i].dependencies) \/ j > Len(Unwrap(selfs[i].dependencies)) THEN
        check_subproject_dependencies_loop(selfs, i + 1, 1, deps, lib_set)
    ELSE LET r == CheckReference(Unwrap(selfs[i].dependencies)[j], deps, lib_set) IN
        IF r = Continue THEN check_subproject_dependencies_loop(selfs, i, j + 1, deps, lib_set)
        ELSE r

check_subproject_dependencies(selfs, deps, lib_set) ==
    check_subproject_dependencies_loop(selfs, 1, 1, deps, lib_set)

----------------------------------------------------------------------------
(* Cycle detection and build order.                                        *)

\* The names a subproject references, in declaration order (both forms of
\* reference are flattened to the bare name).
\* DepNames with the names sorted alphabetically.
DepNames_sorted(subproject) ==
    IF IsSome(subproject.dependencies)
    THEN SortSeq([j \in 1..Len(Unwrap(subproject.dependencies)) |->
                     Unwrap(subproject.dependencies)[j].v.name],
                 LAMBDA x, y : Rank(x) < Rank(y))
    ELSE <<>>

DepNames(subproject) ==
    IF IsSome(subproject.dependencies)
    THEN [j \in 1..Len(Unwrap(subproject.dependencies)) |->
             Unwrap(subproject.dependencies)[j].v.name]
    ELSE <<>>

\* Step 1: HashMap<String, Vec<String>> collected from (name, deps) pairs; of two
\* pairs with the same key the later one stays.  The map is only ever read by get.
DependencyMap(selfs) ==
    [n \in {selfs[i].name.v : i \in 1..Len(selfs)} |->
        DepNames(selfs[CHOOSE i \in 1..Len(selfs) :
                          /\ selfs[i].name.v = n
                          /\ \A k \in 1..Len(selfs) : selfs[k].name.v = n => k <= i])]

\* dfs_cycle_detection.  st is the mutable state the calls share: [visited, stack,
\* path].  Returns [res, st]: res is Ok or Err(path joined by " -> ").
RECURSIVE dfs_cycle_detection(_, _, _)
RECURSIVE dfs_cycle_detection_loop(_, _, _, _)

\* dfs_cycle_detection with the two tests exchanged: a visited project returns
\* at once, so a project on the stack is never seen again.
dfs_cycle_detection_visited_first(project, dependency_map, st) ==
    IF project \in st.visited THEN [res |-> Ok(<<>>), st |-> st]
    ELSE
        LET entered == [visited |-> st.visited \cup {project},
                        stack |-> st.stack \cup {project},
                        path |-> Append(st.path, project)]
            r == IF project \in DOMAIN dependency_map
                 THEN dfs_cycle_detection_loop(dependency_map[project], 1,
                                               dependency_map, entered)
                 ELSE [res |-> Ok(<<>>), st |-> entered]
        IN  IF IsErr(r.res) THEN r
            ELSE [res |-> Ok(<<>>),
                  st |-> [r.st EXCEPT !.stack = @ \ {project}, !.path = PopLast(@)]]

\* dfs_cycle_detection that leaves a processed project on the recursion stack.
dfs_cycle_detection_stack_kept(project, dependency_map, st) ==
    IF project \in st.stack THEN
        LET path == Append(st.path, project) IN
        [res |-> Err(Join(path, " -> ")), st |-> [st EXCEPT !.path = path]]
    ELSE IF project \notin st.visited THEN
        LET entered == [visited |-> st.visited \cup {project},
                        stack |-> st.stack \cup {project},
                        path |-> Append(st.path, project)]
            r == IF project \in DOMAIN dependency_map
                 THEN dfs_cycle_detection_loop(dependency_map[project], 1,
                                               dependency_map, entered)
                 ELSE [res |-> Ok(<<>>), st |-> entered]
        IN  IF IsErr(r.res) THEN r
            ELSE [res |-> Ok(<<>>), st |-> [r.st EXCEPT !.path = PopLast(@)]]
    ELSE [res |-> Ok(<<>>), st |-> st]

dfs_cycle_detection(project, dependency_map, st) ==
    IF project \in st.stack THEN
        LET path == Append(st.path, project) IN
        [res |-> Err(Join(path, " -> ")), st |-> [st EXCEPT !.path = path]]
    ELSE IF project \notin st.visited THEN
        LET entered == [visited |-> st.visited \cup {project},
                        stack |-> st.stack \cup {project},
                        path |-> Append(st.path, project)]
            r == IF project \in DOMAIN dependency_map
                 THEN dfs_cycle_detection_loop(dependency_map[project], 1,
                                               dependency_map, entered)
                 ELSE [res |-> Ok(<<>>), st |-> entered]
        IN  IF IsErr(r.res) THEN r
            ELSE [res |-> Ok(<<>>),
                  st |-> [r.st EXCEPT !.stack = @ \ {project}, !.path = PopLast(@)]]
    ELSE [res |-> Ok(<<>>), st |-> st]

\* `for dep in dependencies { dfs_cycle_detection(dep, ..)? }`
dfs_cycle_detection_loop(deps, k, dependency_map, st) ==
    IF k > Len(deps) THEN [res |-> Ok(<<>>), st |-> st]
    ELSE LET r == dfs_cycle_detection(deps[k], dependency_map, st) IN
        IF IsErr(r.res) THEN r
        ELSE dfs_cycle_detection_loop(deps, k + 1, dependency_map, r.st)

\* dfs_topological_sort.  st is [visited, order]; returns the state after the call.
RECURSIVE dfs_topological_sort(_, _, _)
RECURSIVE dfs_topological_sort_loop(_, _, _, _)

\* dfs_topological_sort that never marks a project visited.
dfs_topological_sort_unmarked(project, dependency_map, st) ==
    LET after == IF project \in DOMAIN dependency_map
                 THEN dfs_topological_sort_loop(dependency_map[project], 1,
                                                dependency_map, st)
                 ELSE st
    IN  [after EXCEPT !.order = Append(@, project)]

dfs_topological_sort(project, dependency_map, st) ==
    IF project \notin st.visited THEN
        LET entered == [st EXCEPT !.visited = @ \cup {project}]
            after == IF project \in DOMAIN dependency_map
                     THEN dfs_topological_sort_loop(dependency_map[project], 1,
                                                    dependency_map, entered)
                     ELSE entered
        IN  [after EXCEPT !.order = Append(@, project)]
    ELSE st

dfs_topological_sort_loop(deps, k, dependency_map, st) ==
    IF k > Len(deps) THEN st
    ELSE dfs_topological_sort_loop(deps, k + 1, dependency_map,
                                   dfs_topological_sort(deps[k], dependency_map, st))

\* Step 3: one dfs_cycle_detection per subproject not yet visited, each with a
\* fresh path; visited and stack are shared by all of them.
RECURSIVE DetectCycles(_, _, _, _)
DetectCycles(selfs, i, dependency_map, st) ==
    IF i > Len(selfs) THEN Ok(<<>>)
    ELSE LET project_name == selfs[i].name.v IN
        IF project_name \notin st.visited THEN
            LET r == dfs_cycle_detection(project_name, dependency_map,
                                         [st EXCEPT !.path = <<>>])
            IN  IF IsErr(r.res) THEN
                    Err(Error("CircularDependency",
                              "Circular dependency detected in subproject: " \o project_name,
                              Some(selfs[i].name.span),
                              Some(AdditionalInfo(selfs[i].name.span,
                                                  "Dependency cycle: " \o r.res.error))))
                ELSE DetectCycles(selfs, i + 1, dependency_map, r.st)
        ELSE DetectCycles(selfs, i + 1, dependency_map, st)

\* Step 4: one dfs_topological_sort per subproject not yet visited.
RECURSIVE TopologicalOrder(_, _, _, _)
TopologicalOrder(selfs, i, dependency_map, st) ==
    IF i > Len(selfs) THEN st.order
    ELSE LET project_name == selfs[i].name.v IN
        IF project_name \notin st.visited
        THEN TopologicalOrder(selfs, i + 1, dependency_map,
                              dfs_topological_sort(project_name, dependency_map, st))
        ELSE TopologicalOrder(selfs, i + 1, dependency_map, st)

\* Step 5: topological_order.reverse()
FinalOrder(topological_order) == Reverse(topological_order)

\* Step 6: filter_map over the names: the first subproject of that name, if any.
RECURSIVE BuildOrder(_, _)
BuildOrder(names, selfs) ==
    IF Len(names) = 0 THEN <<>>
    ELSE LET found == {i \in 1..Len(selfs) : selfs[i].name.v = names[1]}
             rest == BuildOrder(Tail(names), selfs)
         IN  IF found = {} THEN rest
             ELSE <<selfs[CHOOSE i \in found : \A k \in found : i <= k]>> \o rest

check_circular_dependencies_and_get_build_order(selfs) ==
    LET dependency_map == DependencyMap(selfs)
        cycles == DetectCycles(selfs, 1, dependency_map,
                               [visited |-> {}, stack |-> {}, path |-> <<>>])
    IN  IF IsErr(cycles) THEN cycles
        ELSE Ok(BuildOrder(
                  FinalOrder(TopologicalOrder(selfs, 1, dependency_map,
                                              [visited |-> {}, order |-> <<>>])),
                  selfs))

\* verify_subprojects: the three phases, each `?`-propagating its error.  A panic
\* unwinds through the caller.
verify_subprojects(selfs, deps) ==
    LET name_set == check_duplicate_names(selfs) IN
    IF ~IsOk(name_set) THEN name_set
    ELSE LET refs == check_subproject_dependencies(selfs, deps, name_set.value) IN
        IF ~IsOk(refs) THEN refs
        ELSE check_circular_dependencies_and_get_build_order(selfs)

----------------------------------------------------------------------------
(* BuildSettings::check_compiler_details and BuildConfig::verify_config.   *)

\* What `sh -c "which <compiler>"` does in this run: it cannot be spawned, or its
\* stdout is not UTF-8, holds no word, or holds a path.  What the compiler run
\* with -std=<c_standard> does: it cannot be spawned or it exits with a code.
WhichOutcomes == {"spawn_error", "invalid_utf8", "empty", "path"}
WhichProbe(compiler_name) == [cmd |-> "sh", arg |-> "which " \o compiler_name]
StandardProbe(c_standard) == [cmd |-> "compiler", arg |-> "-std=" \o c_standard]

\* check_compiler_details: returns [res, spawned].
check_compiler_details(self, which, std) ==
    LET compiler_error == Err(Error("IncorrectCompiler", "Compiler not in path",
                                    Some(self.compiler.span), None))
        first == <<WhichProbe(self.compiler.v)>>
    IN
    IF which = "spawn_error" THEN [res |-> compiler_error, spawned |-> first]
    ELSE IF which = "invalid_utf8" THEN
        [res |-> Panic("called Result::unwrap() on an Err value: FromUtf8Error"),
         spawned |-> first]
    ELSE IF which = "empty" THEN [res |-> compiler_error, spawned |-> first]
    ELSE IF std # "exit0" THEN
        [res |-> Err(Error("UnsupportedCStandard", "Unsupported C standard",
                           Some(self.c_standard.span), None)),
         spawned |-> Append(first, StandardProbe(self.c_standard.v))]
    ELSE [res |-> Ok(<<>>), spawned |-> Append(first, StandardProbe(self.c_standard.v))]

\* verify_config: the settings gate, the dependency gate, then todo!().
verify_config(settings, deps, probes) ==
    LET compiler == check_compiler_details(settings, probes.which, probes.std) IN
    IF ~IsOk(compiler.res) THEN compiler
    ELSE LET checked == check_dependencies(deps, probes.pkg) IN
        IF ~IsOk(checked.res)
        THEN [res |-> checked.res, spawned |-> compiler.spawned \o checked.spawned]
        ELSE [res |-> Panic("not yet implemented"),
              spawned |-> compiler.spawned \o checked.spawned]

----------------------------------------------------------------------------
(* The configs a run starts from.                                          *)

SubProjectTypes == {"Binary", "Library", "HeaderOnly"}
RefForms == {"Named", "Detailed"}
RefChoices == {[form |-> f, name |-> n] : f \in RefForms, n \in Names}

\* Subproject names up to renaming: the validators only compare names for
\* equality, so the first subproject is "a" and each later one repeats an earlier
\* name or takes the next unused one.  (Duplicates are included.)
NameChoices(n) ==
    {nm \in [1..n -> Names] :
        \A i \in 1..n : \A r \in 1..(Rank(nm[i]) - 1) :
            \E j \in 1..(i - 1) : Rank(nm[j]) = r}

\* Which subproject each of k references belongs to, in declaration order.
Owners(k, n) == {o \in [1..k -> 1..n] : \A j \in 1..(k - 1) : o[j] <= o[j + 1]}

\* The subproject list with names nm, types ty and the references flat dealt
\* out by owner.  A subproject without references has dependencies = None.
\* Spans: the name of subproject i starts at 10 i, its j-th reference at 10 i + j.
MakeSubprojects(n, nm, ty, k, owner, flat) ==
    [i \in 1..n |->
        LET mine == {j \in 1..k : owner[j] = i}
            before == Cardinality({j \in 1..k : owner[j] < i})
        IN  [name |-> Spanned(nm[i], 10 * i),
             type |-> ty[i],
             dependencies |->
                IF mine = {} THEN None
                ELSE Some([j \in 1..Cardinality(mine) |->
                              Spanned(flat[before + j], 10 * i + j)])]]

\* ManualDependency, Spanned: only its name takes part in validation.
ManualDep(name, i) == Spanned([name |-> Spanned(name, 300 + 10 * i + 1)], 300 + 10 * i)

NoDependencies == [remote |-> <<>>, pkg_config |-> <<>>, manual |-> <<>>]

\* The Dependencies collections of the resolver's runs: none, or one manual
\* dependency (has_dependency reads nothing but the names).
ResolverDependencies ==
    {NoDependencies} \cup
    {[NoDependencies EXCEPT !.manual = <<ManualDep(n, 1)>>] : n \in {NameSeq[Len(NameSeq)]}}

NoBuild == [compiler |-> Spanned("cc", 1), c_standard |-> Spanned("c11", 2)]
NoEnv == [which |-> "path", std |-> "exit0", pkg |-> <<>>]
NoResult == [kind |-> "None"]

InitSubprojects ==
    /\ traversal = None
    /\ iteration = None
    /\ asked = None
    /\ overrides = <<>>
    /\ custom_build_rules = <<>>
    /\ op = "subprojects"
    /\ pc = "loaded"
    /\ result = NoResult
    /\ spawned = <<>>
    /\ applied = 0
    /\ build = NoBuild
    /\ env = NoEnv
    /\ dependencies \in ResolverDependencies
    /\ \E n \in 0..MaxSubs : \E k \in 0..(IF n = 0 THEN 0 ELSE MaxRefs) :
        \E nm \in NameChoices(n) : \E ty \in [1..n -> SubProjectTypes] :
        \E owner \in Owners(k, n) : \E flat \in [1..k -> RefChoices] :
            subprojects = MakeSubprojects(n, nm, ty, k, owner, flat)

----------------------------------------------------------------------------
(* The resolver's run.                                                     *)

\* SubProject::verify_subprojects(config.subprojects, &config.dependencies)
VerifySubprojects ==
    /\ op = "subprojects"
    /\ pc = "loaded"
    /\ result' = verify_subprojects(subprojects, dependencies)
    /\ pc' = "done"
    /\ UNCHANGED <<traversal, iteration, asked, overrides, custom_build_rules, build, env, dependencies, subprojects, op, spawned, applied>>

\* The caller replaces the subproject list by the build order it was given and
\* validates the config again.
ApplyBuildOrder ==
    /\ op = "subprojects"
    /\ pc = "done"
    /\ IsOk(result)
    /\ applied < MaxApply
    /\ subprojects' = result.value
    /\ applied' = applied + 1
    /\ pc' = "loaded"
    /\ UNCHANGED <<traversal, iteration, asked, overrides, custom_build_rules, build, env, dependencies, op, result, spawned>>

NextSubprojects == VerifySubprojects \/ ApplyBuildOrder

SpecSubprojects == InitSubprojects /\ [][NextSubprojects]_vars

----------------------------------------------------------------------------
(* What the claims about the resolver speak of.                            *)

ResolverDone == op = "subprojects" /\ pc = "done"

SubprojectNames(selfs) == {selfs[i].name.v : i \in 1..Len(selfs)}

\* The references of a config: [i, j] is the j-th reference of subproject i.
References(selfs) ==
    {<<i, j>> \in (1..Len(selfs)) \X (1..MaxRefs + 1) : j <= Len(DepNames(selfs[i]))}
RefAt(selfs, ij) == Unwrap(selfs[ij[1]].dependencies)[ij[2]]

\* The reference graph: A -> B when a subproject named A references the name B
\* and B names a subproject.
RefEdges(selfs) ==
    {<<selfs[ij[1]].name.v, RefAt(selfs, ij).v.name>> : ij \in
        {r \in References(selfs) : RefAt(selfs, r).v.name \in SubprojectNames(selfs)}}

RECURSIVE ReachFrom(_, _, _)
ReachFrom(edges, frontier, seen) ==
    LET next == {e[2] : e \in {x \in edges : x[1] \in frontier}} \ seen IN
    IF next = {} THEN seen ELSE ReachFrom(edges, next, seen \cup next)

\* The names reachable from name along one or more edges.
Reach(edges, name) == ReachFrom(edges, {name}, {})

HasCycle(selfs) == \E n \in SubprojectNames(selfs) : n \in Reach(RefEdges(selfs), n)

\* A name that is a declared dependency, by the declaration and not by has_dependency.
DeclaredDependencyNames(deps) ==
    {deps.remote[i].v.name.v : i \in 1..Len(deps.remote)}
        \cup {deps.pkg_config[i].v.name.v : i \in 1..Len(deps.pkg_config)}
        \cup {deps.manual[i].v.name.v : i \in 1..Len(deps.manual)}

LinkableNames(selfs) == {selfs[i].name.v : i \in {k \in 1..Len(selfs) : IsLinkable(selfs[k])}}

NoDuplicateSubprojects(selfs) ==
    \A i, k \in 1..Len(selfs) : selfs[i].name.v = selfs[k].name.v => i = k

Resolves(selfs, deps, ij) ==
    \/ RefAt(selfs, ij).v.name \in DeclaredDependencyNames(deps)
    \/ RefAt(selfs, ij).v.name \in LinkableNames(selfs)

ErrorIs(r, error_type) == IsErr(r) /\ r.error.error_type = error_type

\* The index of the subproject named name in a list without duplicate names.
IndexOf(order, name) == CHOOSE i \in 1..Len(order) : order[i].name.v = name

\* The paths a cycle report can name.
CyclePaths(selfs) == UNION {[1..l -> SubprojectNames(selfs)] : l \in 2..(Len(selfs) + 1)}

\* path closes a directed cycle of the reference graph: its last name occurs
\* earlier, and from there on every step is an edge.
ClosesCycle(selfs, path) ==
    \E k \in 1..(Len(path) - 1) :
        /\ path[k] = path[Len(path)]
        /\ \A i \in k..(Len(path) - 1) : <<path[i], path[i + 1]>> \in RefEdges(selfs)

ReportsCycle(selfs, r) ==
    /\ ErrorIs(r, "CircularDependency")
    /\ IsSome(r.error.additional_info)
    /\ \E path \in CyclePaths(selfs) :
        /\ Unwrap(r.error.additional_info).message
              = "Dependency cycle: " \o Join(path, " -> ")
        /\ ClosesCycle(selfs, path)

----------------------------------------------------------------------------
(* C1.  Topological correctness: in a returned build order every subproject *)
(* comes after each subproject it lists as a dependency.                    *)
C1_DependenciesPrecedeDependents ==
    (ResolverDone /\ IsOk(result)) =>
        \A e \in RefEdges(result.value) :
            IndexOf(result.value, e[2]) < IndexOf(result.value, e[1])

(* C2 as claimed.  Every config with a directed cycle among its subproject   *)
(* references fails with CircularDependency, and the report names the cycle. *)
(* (Runs that panic are left aside.)                                         *)
C2_EveryCycleIsCircularDependency ==
    (ResolverDone /\ HasCycle(subprojects) /\ ~IsPanic(result))
        => ReportsCycle(subprojects, result)

(* C2 as amended.  A config with a directed cycle among its subproject       *)
(* references never yields a build order; when its duplicate-name check and  *)
(* its reference resolution both succeed it fails with CircularDependency,   *)
(* and the reported path closes a directed cycle of the reference graph.     *)
C2_CycleSoundness ==
    (ResolverDone /\ HasCycle(subprojects)) =>
        /\ ~IsOk(result)
        /\ (/\ IsOk(check_duplicate_names(subprojects))
            /\ IsOk(check_subproject_dependencies(
                        subprojects, dependencies,
                        check_duplicate_names(subprojects).value)))
           => ReportsCycle(subprojects, result)

\* A cycle through three subprojects was reported.
C2_Witness ==
    /\ ResolverDone
    /\ HasCycle(subprojects)
    /\ ErrorIs(result, "CircularDependency")
    /\ Unwrap(result.error.additional_info).message = "Dependency cycle: a -> b -> c -> a"

(* C3.  No unresolved reference is accepted: when the names are unique and   *)
(* some reference names neither a declared dependency nor a linkable         *)
(* subproject, the resolver fails with InvalidSubprojectDependency at the    *)
(* span of an unresolved reference.  (Runs that panic are left aside.)       *)
C3_UnresolvedReferenceRejected ==
    (/\ ResolverDone
     /\ NoDuplicateSubprojects(subprojects)
     /\ ~IsPanic(result)
     /\ \E ij \in References(subprojects) : ~Resolves(subprojects, dependencies, ij))
    => /\ ErrorIs(result, "InvalidSubprojectDependency")
       /\ \E ij \in References(subprojects) :
            /\ ~Resolves(subprojects, dependencies, ij)
            /\ result.error.span = Some(RefAt(subprojects, ij).span)

(* C4.  References that resolve never abort validation: when the names are   *)
(* unique and every reference, bare or detailed, names a declared dependency *)
(* or a linkable subproject, the resolver neither panics nor fails with      *)
(* InvalidSubprojectDependency.                                              *)
C4_ResolvedReferencesPass ==
    (/\ ResolverDone
     /\ NoDuplicateSubprojects(subprojects)
     /\ \A ij \in References(subprojects) : Resolves(subprojects, dependencies, ij))
    => /\ ~IsPanic(result)
       /\ ~ErrorIs(result, "InvalidSubprojectDependency")

(* C8.  Re-validation is idempotent: validating the config whose subproject  *)
(* list is a returned build order succeeds and returns that same order.      *)
C8_RevalidationIsStable ==
    (ResolverDone /\ applied >= 1) => (IsOk(result) /\ result.value = subprojects)

----------------------------------------------------------------------------
(* Renaming a config: every name n is replaced by r[n]; spans stay.        *)

RenameSubproject(r, subproject) ==
    [name |-> Spanned(r[subproject.name.v], subproject.name.span),
     type |-> subproject.type,
     dependencies |->
        IF IsSome(subproject.dependencies)
        THEN Some([j \in 1..Len(Unwrap(subproject.dependencies)) |->
                      LET dep == Unwrap(subproject.dependencies)[j] IN
                      Spanned([form |-> dep.v.form, name |-> r[dep.v.name]], dep.span)])
        ELSE None]

RenameSubprojects(r, selfs) == [i \in 1..Len(selfs) |-> RenameSubproject(r, selfs[i])]

RenameEntries(r, entries) ==
    [i \in 1..Len(entries) |-> [entries[i] EXCEPT !.v.name.v = r[@]]]

RenameDependencies(r, deps) ==
    [remote |-> RenameEntries(r, deps.remote),
     pkg_config |-> RenameEntries(r, deps.pkg_config),
     manual |-> RenameEntries(r, deps.manual)]

\* What a caller can tell of a result without reading the messages: success with
\* the order, or failure with the kind and the primary span, or a panic.
Outcome(r, selfs) ==
    IF IsOk(r) THEN [kind |-> "Ok", order |-> selfs, error_type |-> "", span |-> None]
    ELSE IF IsErr(r) THEN [kind |-> "Err", order |-> <<>>,
                           error_type |-> r.error.error_type, span |-> r.error.span]
    ELSE [kind |-> "Panic", order |-> <<>>, error_type |-> "", span |-> None]

(* C9.  Determinism: the outcome of the resolver is a function of the config *)
(* as declared, and it does not depend on which names the config uses: under *)
(* every renaming of the names the renamed config has the renamed outcome    *)
(* (same success or failure, same error kind and span, the same subprojects  *)
(* in the same positions of the build order), so no alphabetical or hash     *)
(* order of the names takes part in it.                                      *)
C9_OutcomeIndependentOfNames ==
    ResolverDone =>
        \A r \in Permutations(Names) :
            LET renamed == verify_subprojects(RenameSubprojects(r, subprojects),
                                              RenameDependencies(r, dependencies))
            IN  Outcome(renamed, IF IsOk(renamed) THEN renamed.value ELSE <<>>)
                  = Outcome(result,
                            IF IsOk(result) THEN RenameSubprojects(r, result.value) ELSE <<>>)

\* A build order was returned for a subproject that declares two references
\* against the alphabet, "c" before "b".
C9_Witness ==
    /\ ResolverDone
    /\ IsOk(result)
    /\ Len(result.value) = 3
    /\ \E i \in 1..Len(subprojects) : DepNames(subprojects[i]) = <<"c", "b">>

----------------------------------------------------------------------------
(* The dependency validator's run.                                         *)

\* Most remote entries, and most entries of all three categories together.
MaxRemote == 2
MaxEntries == 3

Versions == {None, Some("1")}
Sources == {"u", "w"}
IncludeNames == {None, Some("i")}
\* header-only, cmake, meson and iceforge are told from custom only; "Cmake"
\* stands for the four of them.
BuildMethods == {None, Some("Cmake"), Some("Custom")}
Queries == {"q"}

RemoteShapes ==
    [name : Names, version : Versions, source : Sources, include_name : IncludeNames,
     build_method : BuildMethods, build_command : BOOLEAN, build_output : BOOLEAN]

\* Spans: remote entry i starts at 100 + 10 i, its fields follow; pkg-config entry
\* i at 200 + 10 i; manual entry i at 300 + 10 i.
MakeRemote(shape, i) ==
    LET at == 100 + 10 * i IN
    Spanned([name |-> Spanned(shape.name, at + 1),
             version |-> IF IsSome(shape.version)
                         THEN Some(Spanned(Unwrap(shape.version), at + 2)) ELSE None,
             source |-> Spanned(shape.source, at + 3),
             include_name |-> IF IsSome(shape.include_name)
                              THEN Some(Spanned(Unwrap(shape.include_name), at + 4))
                              ELSE None,
             build_method |-> shape.build_method,
             build_command |-> IF shape.build_command
                               THEN Some(Spanned("make", at + 5)) ELSE None,
             build_output |-> IF shape.build_output
                              THEN Some(Spanned("out", at + 6)) ELSE None],
            at)

MakePkgConfig(name, query, i) ==
    LET at == 200 + 10 * i IN
    Spanned([name |-> Spanned(name, at + 1), pkg_config_query |-> Spanned(query, at + 2)], at)

\* dependencies is a collection with at most maxRemote remote entries and at
\* most maxEntries entries.
DependenciesWithin(maxRemote, maxEntries) ==
    \E r \in 0..maxRemote : \E p \in 0..(maxEntries - r) : \E m \in 0..(maxEntries - r - p) :
    \E rs \in [1..r -> RemoteShapes] : \E ps \in [1..p -> Names] :
    \E qs \in [1..p -> Queries] : \E ms \in [1..m -> Names] :
        dependencies = [remote |-> [i \in 1..r |-> MakeRemote(rs[i], i)],
                        pkg_config |-> [i \in 1..p |-> MakePkgConfig(ps[i], qs[i], i)],
                        manual |-> [i \in 1..m |-> ManualDep(ms[i], i)]]

\* The probe outcomes that matter to a collection: the pkg-config probe only when
\* there is a pkg-config entry.
PkgProbeChoices(deps) ==
    IF Len(deps.pkg_config) = 0 THEN {[q \in Queries |-> "exit0"]}
    ELSE [Queries -> ProbeOutcomes]

InitDependencies ==
    /\ traversal = None
    /\ iteration = None
    /\ asked = None
    /\ overrides = <<>>
    /\ custom_build_rules = <<>>
    /\ op = "dependencies"
    /\ pc = "loaded"
    /\ result = NoResult
    /\ spawned = <<>>
    /\ applied = 0
    /\ build = NoBuild
    /\ subprojects = <<>>
    /\ DependenciesWithin(MaxRemote, MaxEntries)
    /\ \E probes \in PkgProbeChoices(dependencies) :
        env = [which |-> "path", std |-> "exit0", pkg |-> probes]

\* config.dependencies.check_dependencies()
CheckDependencies ==
    /\ op = "dependencies"
    /\ pc = "loaded"
    /\ LET r == check_dependencies(dependencies, env.pkg) IN
        /\ result' = r.res
        /\ spawned' = r.spawned
    /\ pc' = "done"
    /\ UNCHANGED <<traversal, iteration, asked, overrides, custom_build_rules, build, env, dependencies, subprojects, op, applied>>

NextDependencies == CheckDependencies

SpecDependencies == InitDependencies /\ [][NextDependencies]_vars

----------------------------------------------------------------------------
(* What the claims about the dependency validator speak of.                *)

DependenciesDone == op = "dependencies" /\ pc = "done"

\* The entries of a collection: [category, index].
Entries(deps) ==
    ({"remote"} \X (1..Len(deps.remote)))
        \cup ({"pkg_config"} \X (1..Len(deps.pkg_config)))
        \cup ({"manual"} \X (1..Len(deps.manual)))

EntryName(deps, e) == deps[e[1]][e[2]].v.name

SharesName(deps) ==
    \E e1, e2 \in Entries(deps) : e1 # e2 /\ EntryName(deps, e1).v = EntryName(deps, e2).v

SameSourceAndVersion(x, y) ==
    /\ x.v.source.v = y.v.source.v
    /\ OptionValue(x.v.version) = OptionValue(y.v.version)

SharesSource(deps) ==
    \E i, j \in 1..Len(deps.remote) :
        i # j /\ SameSourceAndVersion(deps.remote[i], deps.remote[j])

SharesIncludeName(deps) ==
    \E i, j \in 1..Len(deps.remote) :
        /\ i # j
        /\ IsSome(deps.remote[i].v.include_name)
        /\ OptionValue(deps.remote[i].v.include_name)
              = OptionValue(deps.remote[j].v.include_name)

SharesRemoteName(deps) ==
    \E i, j \in 1..Len(deps.remote) :
        i # j /\ deps.remote[i].v.name.v = deps.remote[j].v.name.v

\* The build fields of a remote entry that the validator lets pass.
BuildFieldsPass(remote) ==
    IF remote.v.build_method = Some("Custom") THEN IsSome(remote.v.build_command)
    ELSE IF IsSome(remote.v.build_method)
         THEN ~IsSome(remote.v.build_command) /\ ~IsSome(remote.v.build_output)
         ELSE TRUE

AllBuildFieldsPass(deps) == \A i \in 1..Len(deps.remote) : BuildFieldsPass(deps.remote[i])

AllProbesPass(deps, probes) ==
    \A i \in 1..Len(deps.pkg_config) :
        probes[deps.pkg_config[i].v.pkg_config_query.v] = "exit0"

IsDuplicateError(r) ==
    \/ ErrorIs(r, "DuplicateDependencySource")
    \/ ErrorIs(r, "DuplicateDependencyName")
    \/ ErrorIs(r, "DuplicateDependencyIncludeName")

(* C5 as claimed.  Two dependencies of any categories that share a name make *)
(* check_dependencies fail with DuplicateDependencyName.                     *)
C5_SharedNameIsDuplicateDependencyName ==
    (DependenciesDone /\ SharesName(dependencies))
        => ErrorIs(result, "DuplicateDependencyName")

(* C5 as amended.  Two dependencies of any categories that share a name make *)
(* check_dependencies fail: whenever it returns Ok the names are unique over *)
(* the three categories together.  The failure is DuplicateDependencyName    *)
(* whenever the collection violates no other check (source and version,      *)
(* include name, build fields, pkg-config probe).                            *)
C5_NamesUniqueAcrossCategories ==
    (DependenciesDone /\ SharesName(dependencies)) =>
        /\ IsErr(result)
        /\ (/\ ~SharesSource(dependencies)
            /\ ~SharesIncludeName(dependencies)
            /\ AllBuildFieldsPass(dependencies)
            /\ AllProbesPass(dependencies, env.pkg))
           => ErrorIs(result, "DuplicateDependencyName")

\* A manual dependency was rejected for the name of a remote one, with a
\* pkg-config dependency between them.
C5_Witness ==
    /\ DependenciesDone
    /\ Len(dependencies.remote) = 1
    /\ Len(dependencies.pkg_config) = 1
    /\ Len(dependencies.manual) = 1
    /\ ErrorIs(result, "DuplicateDependencyName")
    /\ result.error.span = Some(dependencies.manual[1].v.name.span)
    /\ Unwrap(result.error.additional_info).span = dependencies.remote[1].v.name.span

(* C6 as claimed.  Two remote dependencies with the same source and the same *)
(* version (or both without one) make check_dependencies fail with           *)
(* DuplicateDependencySource, and that error is reported for such a pair     *)
(* only.                                                                     *)
C6_SharedSourceIsDuplicateDependencySource ==
    DependenciesDone =>
        /\ SharesSource(dependencies) => ErrorIs(result, "DuplicateDependencySource")
        /\ ErrorIs(result, "DuplicateDependencySource") => SharesSource(dependencies)

(* C6 as amended.  Two remote dependencies with the same source and the same *)
(* version (or both without one) make check_dependencies fail; the failure   *)
(* is DuplicateDependencySource whenever no remote entry violates the name,  *)
(* include-name or build-field check.  DuplicateDependencySource is reported *)
(* for such a pair only: the same source with different versions is no       *)
(* duplicate.                                                                *)
C6_DuplicateSource ==
    DependenciesDone =>
        /\ SharesSource(dependencies) => IsErr(result)
        /\ (/\ SharesSource(dependencies)
            /\ ~SharesRemoteName(dependencies)
            /\ ~SharesIncludeName(dependencies)
            /\ AllBuildFieldsPass(dependencies))
           => ErrorIs(result, "DuplicateDependencySource")
        /\ ErrorIs(result, "DuplicateDependencySource") => SharesSource(dependencies)

\* Two remotes with one source and no version were rejected.
C6_Witness ==
    /\ DependenciesDone
    /\ Len(dependencies.remote) = 2
    /\ dependencies.remote[1].v.source.v = dependencies.remote[2].v.source.v
    /\ dependencies.remote[1].v.version = None
    /\ dependencies.remote[2].v.version = None
    /\ ErrorIs(result, "DuplicateDependencySource")

(* C7.  Every duplicate the dependency validator reports has its primary     *)
(* span at the offending, later declared value and its secondary span at the *)
(* earlier definition: the secondary span lies before the primary one.       *)
C7_SecondarySpanAtEarlierDefinition ==
    (DependenciesDone /\ IsDuplicateError(result)) =>
        /\ IsSome(result.error.span)
        /\ IsSome(result.error.additional_info)
        /\ Unwrap(result.error.additional_info).span < Unwrap(result.error.span)

----------------------------------------------------------------------------
(* The run of verify_config.                                               *)

\* Most dependency entries of a config that verify_config is run on.
MaxConfigEntries == 1

InitConfig ==
    /\ traversal = None
    /\ iteration = None
    /\ asked = None
    /\ overrides = <<>>
    /\ custom_build_rules = <<>>
    /\ op = "config"
    /\ pc = "loaded"
    /\ result = NoResult
    /\ spawned = <<>>
    /\ applied = 0
    /\ build = NoBuild
    /\ subprojects = <<>>
    /\ DependenciesWithin(MaxConfigEntries, MaxConfigEntries)
    /\ \E which \in WhichOutcomes : \E std \in ProbeOutcomes :
       \E probes \in PkgProbeChoices(dependencies) :
        env = [which |-> which, std |-> std, pkg |-> probes]

\* config.verify_config()
VerifyConfig ==
    /\ op = "config"
    /\ pc = "loaded"
    /\ LET r == verify_config(build, dependencies, env) IN
        /\ result' = r.res
        /\ spawned' = r.spawned
    /\ pc' = "done"
    /\ UNCHANGED <<traversal, iteration, asked, overrides, custom_build_rules, build, env, dependencies, subprojects, op, applied>>

NextConfig == VerifyConfig

SpecConfig == InitConfig /\ [][NextConfig]_vars

ConfigDone == op = "config" /\ pc = "done"

(* C10.  Every run of verify_config ends in Ok or in Err(Error): once the    *)
(* settings gate and the dependency gate have passed, the remaining gates    *)
(* run and the run returns Ok or the first error met.                        *)
C10_PipelineEndsInOkOrErr ==
    (/\ ConfigDone
     /\ IsOk(check_compiler_details(build, env.which, env.std).res)
     /\ IsOk(check_dependencies(dependencies, env.pkg).res))
    => (IsOk(result) \/ IsErr(result))

----------------------------------------------------------------------------
(* Override::verify_overrides and CustomBuildRule::verify_custom_build_rules. *)

\* The order in which a HashSet<Spanned<String>> hands out its elements is not
\* specified: a run fixes it as a ranking of all names.
HashOrders == {o \in [1..Len(NameSeq) -> Names] : \A i, j \in 1..Len(NameSeq) : o[i] = o[j] => i = j}

\* The elements of set in the order a run's ranking gives them.
HashIter(set, order) ==
    LET present == SelectSeq(order, LAMBDA n : \E y \in set : y.v = n)
    IN  [i \in 1..Len(present) |-> CHOOSE y \in set : y.v = present[i]]

\* verify_overrides, first loop: Err(OverrideNameConflict) at the first repeated
\* name, else the set of names.
RECURSIVE verify_overrides_insert_loop(_, _, _)
verify_overrides_insert_loop(selfs, i, name_set) ==
    IF i > Len(selfs) THEN Ok(name_set)
    ELSE LET over == selfs[i] IN
        IF HashContains(name_set, over.name) THEN
            Err(Error("OverrideNameConflict",
                      "Override name " \o over.name.v \o " is already in use",
                      Some(over.name.span),
                      Some(AdditionalInfo(HashGet(name_set, over.name).span,
                                          "Previous definition"))))
        ELSE verify_overrides_insert_loop(selfs, i + 1, HashInsert(name_set, over.name))

\* verify_overrides, second loop, over the name set as iterated.
RECURSIVE verify_overrides_match_loop(_, _, _)
verify_overrides_match_loop(names, i, sub_projects) ==
    IF i > Len(names) THEN Ok(<<>>)
    ELSE LET name == names[i] IN
        IF ~(\E k \in 1..Len(sub_projects) : sub_projects[k].name.v = name.v) THEN
            Err(Error("OverrideNameConflict",
                      "Override name " \o name.v \o " is not defined in any subproject",
                      Some(name.span), None))
        ELSE verify_overrides_match_loop(names, i + 1, sub_projects)

\* verify_overrides without its second loop.
verify_overrides_duplicates_only(selfs, sub_projects, order) ==
    LET r == verify_overrides_insert_loop(selfs, 1, {})
    IN  IF IsErr(r) THEN r ELSE Ok(<<>>)

verify_overrides(selfs, sub_projects, order) ==
    LET r == verify_overrides_insert_loop(selfs, 1, {})
    IN  IF IsErr(r) THEN r
        ELSE verify_overrides_match_loop(HashIter(r.value, order), 1, sub_projects)

\* verify_custom_build_rules, its loop.
RECURSIVE verify_custom_build_rules_loop(_, _, _)
verify_custom_build_rules_loop(selfs, i, name_set) ==
    IF i > Len(selfs) THEN Ok(<<>>)
    ELSE LET cbr == selfs[i] IN
        IF HashContains(name_set, cbr.name) THEN
            Err(Error("DuplicateCustomBuildRuleName",
                      "Duplicate custom build rule name " \o cbr.name.v,
                      Some(cbr.name.span),
                      Some(AdditionalInfo(HashGet(name_set, cbr.name).span,
                                          "Previous definition"))))
        ELSE verify_custom_build_rules_loop(selfs, i + 1, HashInsert(name_set, cbr.name))

\* verify_custom_build_rules that lets every list pass.
verify_custom_build_rules_unchecked(selfs) == Ok(<<>>)

verify_custom_build_rules(selfs) == verify_custom_build_rules_loop(selfs, 1, {})

----------------------------------------------------------------------------
(* The runs of the name validators.                                        *)

\* Most overrides, custom build rules and subprojects in these runs.
MaxNamed == 3

\* Override and CustomBuildRule: only the name takes part in validation.
\* Spans: override i has its name at 400 + 10 i, rule i at 500 + 10 i.
MakeOverrides(nm) == [i \in 1..Len(nm) |-> [name |-> Spanned(nm[i], 400 + 10 * i)]]
MakeCustomBuildRules(nm) == [i \in 1..Len(nm) |-> [name |-> Spanned(nm[i], 500 + 10 * i)]]
\* Binary subprojects without dependency references.
MakePlainSubprojects(nm) ==
    [i \in 1..Len(nm) |->
        [name |-> Spanned(nm[i], 10 * i), type |-> "Binary", dependencies |-> None]]

NameLists(max) == UNION {[1..n -> Names] : n \in 0..max}

InitNames ==
    /\ traversal = None
    /\ iteration = None
    /\ asked = None
    /\ op \in {"overrides", "custom_build_rules", "subprojects"}
    /\ pc = "loaded"
    /\ result = NoResult
    /\ spawned = <<>>
    /\ applied = 0
    /\ build = NoBuild
    /\ env = NoEnv
    /\ dependencies = NoDependencies
    /\ \E nm \in NameLists(MaxNamed) : overrides = MakeOverrides(nm)
    /\ \E nm \in NameLists(MaxNamed) : custom_build_rules = MakeCustomBuildRules(nm)
    /\ \E nm \in NameLists(MaxNamed) : subprojects = MakePlainSubprojects(nm)

\* Override::verify_overrides(&overrides, &config.subprojects)
VerifyOverrides ==
    /\ op = "overrides"
    /\ pc = "loaded"
    /\ \E order \in HashOrders : result' = verify_overrides(overrides, subprojects, order)
    /\ pc' = "done"
    /\ UNCHANGED <<traversal, iteration, asked, overrides, custom_build_rules, build, env, dependencies, subprojects, op, spawned, applied>>

\* CustomBuildRule::verify_custom_build_rules(&custom_build_rules)
VerifyCustomBuildRules ==
    /\ op = "custom_build_rules"
    /\ pc = "loaded"
    /\ result' = verify_custom_build_rules(custom_build_rules)
    /\ pc' = "done"
    /\ UNCHANGED <<traversal, iteration, asked, overrides, custom_build_rules, build, env, dependencies, subprojects, op, spawned, applied>>

NextNames == VerifyOverrides \/ VerifyCustomBuildRules \/ VerifySubprojects

SpecNames == InitNames /\ [][NextNames]_vars

----------------------------------------------------------------------------
(* What the claims about the name validators speak of.                     *)

OverridesDone == op = "overrides" /\ pc = "done"
CustomBuildRulesDone == op = "custom_build_rules" /\ pc = "done"
SubprojectNamesDone == op = "subprojects" /\ pc = "done"

\* Two entries of a list of named entities share a name.
HasDuplicateName(list) ==
    \E i, j \in 1..Len(list) : i < j /\ list[i].name.v = list[j].name.v

\* The first entry, in declaration order, that repeats the name of an earlier one.
FirstRepeat(list) ==
    CHOOSE j \in 1..Len(list) :
        /\ \E i \in 1..(j - 1) : list[i].name.v = list[j].name.v
        /\ \A k \in 1..(j - 1) : ~(\E i \in 1..(k - 1) : list[i].name.v = list[k].name.v)

\* The first entry that carries the name of entry j.
FirstNamedLike(list, j) ==
    CHOOSE i \in 1..j : list[i].name.v = list[j].name.v
                        /\ \A k \in 1..(i - 1) : list[k].name.v # list[j].name.v

\* The result is the duplicate error error_type on the first repeated name of
\* list: primary span at the repeating (later) declaration, secondary span at the
\* first (earlier) one.
ReportsFirstRepeat(r, error_type, list) ==
    LET j == FirstRepeat(list)
        i == FirstNamedLike(list, j)
    IN  /\ ErrorIs(r, error_type)
        /\ r.error.span = Some(list[j].name.span)
        /\ IsSome(r.error.additional_info)
        /\ Unwrap(r.error.additional_info).span = list[i].name.span
        /\ list[i].name.span < list[j].name.span

\* The overrides whose name is the name of no subproject.
UnmatchedOverrides ==
    {i \in 1..Len(overrides) :
        ~(\E k \in 1..Len(subprojects) : subprojects[k].name.v = overrides[i].name.v)}

(* C11.  verify_overrides rejects a repeated override name first, with       *)
(* OverrideNameConflict whose secondary span is at the earlier definition;   *)
(* without repeated names it rejects an override that names no subproject    *)
(* with OverrideNameConflict and no secondary span; it returns Ok exactly    *)
(* when the override names are pairwise distinct and each is a subproject's. *)
C11_OverrideValidation ==
    OverridesDone =>
        /\ HasDuplicateName(overrides)
            => ReportsFirstRepeat(result, "OverrideNameConflict", overrides)
        /\ (~HasDuplicateName(overrides) /\ UnmatchedOverrides # {}) =>
            /\ ErrorIs(result, "OverrideNameConflict")
            /\ result.error.additional_info = None
            /\ \E i \in UnmatchedOverrides :
                result.error.span = Some(overrides[i].name.span)
        /\ IsOk(result) <=> (~HasDuplicateName(overrides) /\ UnmatchedOverrides = {})

\* An override was rejected for naming no subproject although subprojects and a
\* matching override exist.
C11_Witness ==
    /\ OverridesDone
    /\ Len(subprojects) > 0
    /\ Len(overrides) = 2
    /\ ~HasDuplicateName(overrides)
    /\ UnmatchedOverrides = {2}
    /\ ErrorIs(result, "OverrideNameConflict")
    /\ result.error.additional_info = None

(* C16.  Two subprojects sharing a name fail with DuplicateSubprojectName    *)
(* and two custom build rules sharing a name fail with                       *)
(* DuplicateCustomBuildRuleName, each with the primary span at the later     *)
(* declaration and the secondary span at the earlier definition; with        *)
(* pairwise distinct names the duplicate check succeeds.                     *)
C16_DuplicateNamesRejected ==
    /\ CustomBuildRulesDone =>
        IF HasDuplicateName(custom_build_rules)
        THEN ReportsFirstRepeat(result, "DuplicateCustomBuildRuleName", custom_build_rules)
        ELSE IsOk(result)
    /\ SubprojectNamesDone =>
        IF HasDuplicateName(subprojects)
        THEN ReportsFirstRepeat(result, "DuplicateSubprojectName", subprojects)
        ELSE /\ IsOk(check_duplicate_names(subprojects))
             /\ ~ErrorIs(result, "DuplicateSubprojectName")

\* The third custom build rule repeated the name of the first.
C16_Witness ==
    /\ CustomBuildRulesDone
    /\ Len(custom_build_rules) = 3
    /\ custom_build_rules[1].name.v = custom_build_rules[3].name.v
    /\ custom_build_rules[1].name.v # custom_build_rules[2].name.v
    /\ ErrorIs(result, "DuplicateCustomBuildRuleName")
    /\ result.error.span = Some(custom_build_rules[3].name.span)

----------------------------------------------------------------------------
(* C12.  On success the resolver returns a permutation of the subprojects   *)
(* it was given: the returned list has their number, holds each of them      *)
(* exactly once and holds no entry for a name that is only an external       *)
(* dependency.                                                               *)
C12_BuildOrderIsPermutation ==
    (ResolverDone /\ IsOk(result)) =>
        /\ Len(result.value) = Len(subprojects)
        /\ \A i \in 1..Len(subprojects) :
            Cardinality({j \in 1..Len(result.value) : result.value[j] = subprojects[i]}) = 1
        /\ \A j \in 1..Len(result.value) :
            \E i \in 1..Len(subprojects) : result.value[j].name.v = subprojects[i].name.v

\* Two subprojects were ordered, both referring to an external dependency that
\* is no subproject's name.
C12_Witness ==
    /\ ResolverDone
    /\ IsOk(result)
    /\ Len(subprojects) = 2
    /\ Len(dependencies.manual) = 1
    /\ dependencies.manual[1].v.name.v \notin {subprojects[i].name.v : i \in 1..2}
    /\ \A i \in 1..2 : /\ IsSome(subprojects[i].dependencies)
                       /\ \E j \in 1..Len(Unwrap(subprojects[i].dependencies)) :
                            Unwrap(subprojects[i].dependencies)[j].v.name
                                = dependencies.manual[1].v.name.v
    /\ result.value # subprojects

----------------------------------------------------------------------------
(* Runs in which the validators are called one after the other, in any     *)
(* order and any number of times, on one loaded config.                    *)

\* Most entries of each dependency category, most subprojects, most references,
\* most overrides and most custom build rules of the config of these runs.
MaxPerCategory == 1
MaxCalledSubs == 1
MaxCalledRefs == 1
MaxCalledNamed == 1

\* A remote dependency that passes every check but the name check.
PlainRemote(nm, i) ==
    MakeRemote([name |-> nm, version |-> None, source |-> "u", include_name |-> None,
                build_method |-> None, build_command |-> FALSE, build_output |-> FALSE], i)

InitValidators ==
    /\ traversal = None
    /\ iteration = None
    /\ op = "validators"
    /\ pc = "loaded"
    /\ result = NoResult
    /\ spawned = <<>>
    /\ applied = 0
    /\ asked = None
    /\ build = NoBuild
    /\ \E rs \in NameLists(MaxPerCategory) : \E ps \in NameLists(MaxPerCategory) :
       \E ms \in NameLists(MaxPerCategory) :
        dependencies = [remote |-> [i \in 1..Len(rs) |-> PlainRemote(rs[i], i)],
                        pkg_config |-> [i \in 1..Len(ps) |-> MakePkgConfig(ps[i], "q", i)],
                        manual |-> [i \in 1..Len(ms) |-> ManualDep(ms[i], i)]]
    /\ \E probes \in PkgProbeChoices(dependencies) :
        env = [which |-> "path", std |-> "exit0", pkg |-> probes]
    /\ \E n \in 0..MaxCalledSubs : \E k \in 0..(IF n = 0 THEN 0 ELSE MaxCalledRefs) :
        \E nm \in NameChoices(n) : \E ty \in [1..n -> SubProjectTypes] :
        \E owner \in Owners(k, n) : \E flat \in [1..k -> RefChoices] :
            subprojects = MakeSubprojects(n, nm, ty, k, owner, flat)
    /\ \E nm \in NameLists(MaxCalledNamed) : overrides = MakeOverrides(nm)
    /\ \E nm \in NameLists(MaxCalledNamed) : custom_build_rules = MakeCustomBuildRules(nm)

\* config.dependencies.has_dependency(name): the loop runs over self.clone().
CallHasDependency ==
    /\ op = "validators"
    /\ \E n \in Names :
        /\ asked' = Some(n)
        /\ result' = [kind |-> "Bool", value |-> has_dependency(dependencies, n)]
    /\ pc' = "has_dependency"
    /\ spawned' = <<>>
    /\ UNCHANGED <<traversal, iteration, build, env, dependencies, subprojects, overrides, custom_build_rules, op, applied>>

\* check_dependencies whose loop runs over the collection itself: the first
\* next() already takes an entry away.
CallCheckDependencies_consuming ==
    /\ op = "validators"
    /\ LET r == check_dependencies(dependencies, env.pkg) IN
        /\ result' = r.res
        /\ spawned' = r.spawned
    /\ dependencies' = DependenciesNext(dependencies).self
    /\ pc' = "check_dependencies"
    /\ asked' = None
    /\ UNCHANGED <<traversal, iteration, build, env, subprojects, overrides, custom_build_rules, op, applied>>

\* config.dependencies.check_dependencies(): &self, the loop runs over self.clone().
CallCheckDependencies ==
    /\ op = "validators"
    /\ LET r == check_dependencies(dependencies, env.pkg) IN
        /\ result' = r.res
        /\ spawned' = r.spawned
    /\ pc' = "check_dependencies"
    /\ asked' = None
    /\ UNCHANGED <<traversal, iteration, build, env, dependencies, subprojects, overrides, custom_build_rules, op, applied>>

\* SubProject::verify_subprojects(config.subprojects.clone(), &config.dependencies)
CallVerifySubprojects ==
    /\ op = "validators"
    /\ result' = verify_subprojects(subprojects, dependencies)
    /\ pc' = "verify_subprojects"
    /\ spawned' = <<>>
    /\ asked' = None
    /\ UNCHANGED <<traversal, iteration, build, env, dependencies, subprojects, overrides, custom_build_rules, op, applied>>

\* Override::verify_overrides(&overrides, &config.subprojects)
CallVerifyOverrides ==
    /\ op = "validators"
    /\ \E order \in HashOrders : result' = verify_overrides(overrides, subprojects, order)
    /\ pc' = "verify_overrides"
    /\ spawned' = <<>>
    /\ asked' = None
    /\ UNCHANGED <<traversal, iteration, build, env, dependencies, subprojects, overrides, custom_build_rules, op, applied>>

\* CustomBuildRule::verify_custom_build_rules(&custom_build_rules)
CallVerifyCustomBuildRules ==
    /\ op = "validators"
    /\ result' = verify_custom_build_rules(custom_build_rules)
    /\ pc' = "verify_custom_build_rules"
    /\ spawned' = <<>>
    /\ asked' = None
    /\ UNCHANGED <<traversal, iteration, build, env, dependencies, subprojects, overrides, custom_build_rules, op, applied>>

NextValidators ==
    \/ CallHasDependency
    \/ CallCheckDependencies
    \/ CallVerifySubprojects
    \/ CallVerifyOverrides
    \/ CallVerifyCustomBuildRules

SpecValidators == InitValidators /\ [][NextValidators]_vars

(* C13.  has_dependency(name) is true exactly when name is the name of a     *)
(* declared remote, pkg-config or manual dependency; it is false for a       *)
(* subproject name that is no dependency name and for an empty collection.   *)
C13_HasDependencyIffDeclared ==
    (op = "validators" /\ pc = "has_dependency") =>
        (result.value <=> (Unwrap(asked) \in DeclaredDependencyNames(dependencies)))

\* has_dependency found the name of the manual entry behind a remote and a
\* pkg-config entry of other names.
C13_Witness ==
    /\ op = "validators"
    /\ pc = "has_dependency"
    /\ Len(dependencies.remote) = 1
    /\ Len(dependencies.pkg_config) = 1
    /\ Len(dependencies.manual) = 1
    /\ dependencies.manual[1].v.name.v = Unwrap(asked)
    /\ dependencies.remote[1].v.name.v # Unwrap(asked)
    /\ dependencies.pkg_config[1].v.name.v # Unwrap(asked)
    /\ result.value = TRUE

(* C19.  Validation is read-only: no call of has_dependency,                 *)
(* check_dependencies, verify_subprojects, verify_overrides or               *)
(* verify_custom_build_rules changes the Dependencies collection or any      *)
(* other collection of the config, and after a call has_dependency is still  *)
(* true of every name that was declared before it.                           *)
C19_ValidationIsReadOnly ==
    [][op = "validators" =>
        /\ dependencies' = dependencies
        /\ subprojects' = subprojects
        /\ overrides' = overrides
        /\ custom_build_rules' = custom_build_rules
        /\ build' = build
        /\ \A n \in DeclaredDependencyNames(dependencies) : has_dependency(dependencies', n)
      ]_vars

\* check_dependencies has returned Ok on a collection with an entry of every
\* category, and the collection is still there.
C19_Witness ==
    /\ op = "validators"
    /\ pc = "check_dependencies"
    /\ IsOk(result)
    /\ Len(dependencies.remote) = 1
    /\ Len(dependencies.pkg_config) = 1
    /\ Len(dependencies.manual) = 1
    /\ \A n \in DeclaredDependencyNames(dependencies) : has_dependency(dependencies, n)

----------------------------------------------------------------------------
----------------------------------------------------------------------------
\* The build-field rule of a remote entry: a custom method has its build
\* command; any other method, or none, has neither build command nor build output.
BuildFieldRule(remote) ==
    IF remote.v.build_method = Some("Custom") THEN IsSome(remote.v.build_command)
    ELSE ~IsSome(remote.v.build_command) /\ ~IsSome(remote.v.build_output)

----------------------------------------------------------------------------
(* The run of check_compiler_details.                                      *)

Compilers == {"cc", "gcc", "clang"}
CStandards == {"c99", "c11", "c23"}

InitSettings ==
    /\ traversal = None
    /\ iteration = None
    /\ op = "settings"
    /\ pc = "loaded"
    /\ result = NoResult
    /\ spawned = <<>>
    /\ applied = 0
    /\ asked = None
    /\ dependencies = NoDependencies
    /\ subprojects = <<>>
    /\ overrides = <<>>
    /\ custom_build_rules = <<>>
    /\ \E compiler \in Compilers : \E c_standard \in CStandards :
        build = [compiler |-> Spanned(compiler, 1), c_standard |-> Spanned(c_standard, 2)]
    /\ \E which \in WhichOutcomes : \E std \in ProbeOutcomes :
        env = [which |-> which, std |-> std, pkg |-> <<>>]

\* config.build.check_compiler_details()
CheckCompilerDetails ==
    /\ op = "settings"
    /\ pc = "loaded"
    /\ LET r == check_compiler_details(build, env.which, env.std) IN
        /\ result' = r.res
        /\ spawned' = r.spawned
    /\ pc' = "done"
    /\ UNCHANGED <<traversal, iteration, asked, overrides, custom_build_rules, build, env, dependencies, subprojects, op, applied>>

NextSettings == CheckCompilerDetails

SpecSettings == InitSettings /\ [][NextSettings]_vars

SettingsDone == op = "settings" /\ pc = "done"

(* C17.  check_compiler_details fails with IncorrectCompiler when the        *)
(* compiler cannot be resolved, and then never spawns the standard probe; it *)
(* fails with UnsupportedCStandard when the standard probe cannot be run or  *)
(* exits non-zero; otherwise it returns Ok.  It spawns at most two processes *)
(* and none of them twice.                                                   *)
C17_SettingsValidation ==
    SettingsDone =>
        /\ \/ IsOk(result)
           \/ ErrorIs(result, "IncorrectCompiler")
           \/ ErrorIs(result, "UnsupportedCStandard")
        /\ env.which \in {"spawn_error", "empty"} => ErrorIs(result, "IncorrectCompiler")
        /\ ErrorIs(result, "IncorrectCompiler")
            => \A i \in 1..Len(spawned) : spawned[i] # StandardProbe(build.c_standard.v)
        /\ (env.which = "path" /\ env.std # "exit0")
            => ErrorIs(result, "UnsupportedCStandard")
        /\ (env.which = "path" /\ env.std = "exit0") => IsOk(result)
        /\ Len(spawned) <= 2
        /\ \A i, j \in 1..Len(spawned) : spawned[i] = spawned[j] => i = j

----------------------------------------------------------------------------
(* Runs of check_dependencies on collections of pkg-config entries with     *)
(* different queries.                                                       *)

\* Most pkg-config entries of these runs.
MaxPkgConfig == 3

PkgQueries == {"q", "r"}

\* A remote dependency with the custom method and no build command.
CustomRemoteWithoutCommand(nm, i) ==
    MakeRemote([name |-> nm, version |-> None, source |-> "u", include_name |-> None,
                build_method |-> Some("Custom"), build_command |-> FALSE,
                build_output |-> FALSE], i)

InitPkgConfig ==
    /\ traversal = None
    /\ iteration = None
    /\ op = "dependencies"
    /\ pc = "loaded"
    /\ result = NoResult
    /\ spawned = <<>>
    /\ applied = 0
    /\ asked = None
    /\ build = NoBuild
    /\ subprojects = <<>>
    /\ overrides = <<>>
    /\ custom_build_rules = <<>>
    /\ \E rs \in NameLists(MaxPerCategory) : \E valid \in BOOLEAN :
       \E ps \in NameLists(MaxPkgConfig) : \E qs \in [1..Len(ps) -> PkgQueries] :
       \E ms \in NameLists(MaxPerCategory) :
        /\ (Len(rs) = 0 => valid)
        /\ dependencies =
            [remote |-> [i \in 1..Len(rs) |->
                            IF valid THEN PlainRemote(rs[i], i)
                            ELSE CustomRemoteWithoutCommand(rs[i], i)],
             pkg_config |-> [i \in 1..Len(ps) |-> MakePkgConfig(ps[i], qs[i], i)],
             manual |-> [i \in 1..Len(ms) |-> ManualDep(ms[i], i)]]
    /\ \E probes \in [PkgQueries -> ProbeOutcomes] :
        env = [which |-> "path", std |-> "exit0", pkg |-> probes]

SpecPkgConfig == InitPkgConfig /\ [][NextDependencies]_vars

\* No remote entry violates a check.
RemotesPass(deps) ==
    /\ ~SharesSource(deps)
    /\ ~SharesRemoteName(deps)
    /\ ~SharesIncludeName(deps)
    /\ AllBuildFieldsPass(deps)

\* The pkg-config entries are visited after the remote ones, the last declared
\* first.  Entry i meets its name in the name set when a remote entry or a
\* pkg-config entry visited before it carries it.
PkgNameClash(deps, i) ==
    \/ \E k \in 1..Len(deps.remote) : deps.remote[k].v.name.v = deps.pkg_config[i].v.name.v
    \/ \E j \in (i + 1)..Len(deps.pkg_config) :
        deps.pkg_config[j].v.name.v = deps.pkg_config[i].v.name.v

PkgProbeFails(deps, probes, i) == probes[deps.pkg_config[i].v.pkg_config_query.v] # "exit0"

\* Entry i is reached: nothing visited before it violated a check.
PkgVisited(deps, probes, i) ==
    /\ RemotesPass(deps)
    /\ \A j \in (i + 1)..Len(deps.pkg_config) :
        ~PkgNameClash(deps, j) /\ ~PkgProbeFails(deps, probes, j)

\* The entries that are reached and pass their name check, in visiting order.
PkgProbed(deps, probes) ==
    SelectSeq([k \in 1..Len(deps.pkg_config) |-> Len(deps.pkg_config) + 1 - k],
              LAMBDA i : PkgVisited(deps, probes, i) /\ ~PkgNameClash(deps, i))

(* C18.  For each pkg-config entry the name is checked against the shared    *)
(* name set first (DuplicateDependencyName) and only then the probe is run   *)
(* for it; the entry fails with InvalidPkgConfigQuery exactly when its probe *)
(* cannot be run or exits non-zero; the probe is spawned once for each entry *)
(* that is reached and passes its name check, and for no other entry: not a  *)
(* second time, and not for an entry after the first violation.              *)
C18_PkgConfigNameThenProbe ==
    DependenciesDone =>
        /\ spawned = [k \in 1..Len(PkgProbed(dependencies, env.pkg)) |->
                        PkgConfigProbe(dependencies.pkg_config[
                            PkgProbed(dependencies, env.pkg)[k]].v.pkg_config_query.v)]
        /\ \A i \in 1..Len(dependencies.pkg_config) :
            PkgVisited(dependencies, env.pkg, i) =>
                /\ PkgNameClash(dependencies, i) =>
                    /\ ErrorIs(result, "DuplicateDependencyName")
                    /\ result.error.span = Some(dependencies.pkg_config[i].v.name.span)
                /\ (~PkgNameClash(dependencies, i) /\ PkgProbeFails(dependencies, env.pkg, i)) =>
                    /\ ErrorIs(result, "InvalidPkgConfigQuery")
                    /\ result.error.span
                          = Some(dependencies.pkg_config[i].v.pkg_config_query.span)
        /\ ErrorIs(result, "InvalidPkgConfigQuery") =>
            \E i \in 1..Len(dependencies.pkg_config) :
                /\ PkgVisited(dependencies, env.pkg, i)
                /\ ~PkgNameClash(dependencies, i)
                /\ PkgProbeFails(dependencies, env.pkg, i)

\* Of three pkg-config entries one was probed and passed, the next repeated its
\* name although its own query would have failed, and the third was never reached.
C18_Witness ==
    /\ DependenciesDone
    /\ Len(dependencies.pkg_config) = 3
    /\ Len(spawned) = 1
    /\ ErrorIs(result, "DuplicateDependencyName")
    /\ result.error.span = Some(dependencies.pkg_config[2].v.name.span)
    /\ env.pkg[dependencies.pkg_config[2].v.pkg_config_query.v] # "exit0"

----------------------------------------------------------------------------
(* The checks of one remote entry, against the remote entries visited      *)
(* before it (those declared after it).                                    *)

RemoteSourceClash(deps, i) ==
    \E j \in (i + 1)..Len(deps.remote) : SameSourceAndVersion(deps.remote[i], deps.remote[j])

RemoteNameClash(deps, i) ==
    \E j \in (i + 1)..Len(deps.remote) : deps.remote[j].v.name.v = deps.remote[i].v.name.v

RemoteIncludeNameClash(deps, i) ==
    /\ IsSome(deps.remote[i].v.include_name)
    /\ \E j \in (i + 1)..Len(deps.remote) :
        OptionValue(deps.remote[j].v.include_name) = OptionValue(deps.remote[i].v.include_name)

RemoteViolates(deps, i) ==
    \/ RemoteSourceClash(deps, i)
    \/ RemoteNameClash(deps, i)
    \/ RemoteIncludeNameClash(deps, i)
    \/ ~BuildFieldsPass(deps.remote[i])

\* Remote entry i is reached: no remote visited before it violated a check.
RemoteVisited(deps, i) == \A j \in (i + 1)..Len(deps.remote) : ~RemoteViolates(deps, j)

(* C20.  Within one remote entry the checks are applied in the order source  *)
(* and version, name, include name, build fields, and the first one violated *)
(* gives the error: a remote that repeats both the source and version and    *)
(* the name of a visited remote reports DuplicateDependencySource.           *)
(* DuplicateDependencyIncludeName is raised only between two remotes that    *)
(* both declare an include name.                                             *)
C20_RemoteCheckOrder ==
    DependenciesDone =>
        /\ \A i \in 1..Len(dependencies.remote) :
            RemoteVisited(dependencies, i) =>
                IF RemoteSourceClash(dependencies, i) THEN
                    /\ ErrorIs(result, "DuplicateDependencySource")
                    /\ result.error.span = Some(dependencies.remote[i].v.source.span)
                ELSE IF RemoteNameClash(dependencies, i) THEN
                    /\ ErrorIs(result, "DuplicateDependencyName")
                    /\ result.error.span = Some(dependencies.remote[i].v.name.span)
                ELSE IF RemoteIncludeNameClash(dependencies, i) THEN
                    /\ ErrorIs(result, "DuplicateDependencyIncludeName")
                    /\ result.error.span
                          = Some(Unwrap(dependencies.remote[i].v.include_name).span)
                ELSE IF ~BuildFieldsPass(dependencies.remote[i]) THEN
                    \/ ErrorIs(result, "CustomBuildMissing")
                    \/ ErrorIs(result, "ExtraFieldNonCustomBuild")
                ELSE TRUE
        /\ ErrorIs(result, "DuplicateDependencyIncludeName") =>
            \E i, j \in 1..Len(dependencies.remote) :
                /\ i # j
                /\ IsSome(dependencies.remote[i].v.include_name)
                /\ IsSome(dependencies.remote[j].v.include_name)
                /\ Unwrap(dependencies.remote[i].v.include_name).v
                      = Unwrap(dependencies.remote[j].v.include_name).v

\* Two remotes with one source, no version, one name and one include name: the
\* source was reported.
C20_Witness ==
    /\ DependenciesDone
    /\ Len(dependencies.remote) = 2
    /\ RemoteSourceClash(dependencies, 1)
    /\ RemoteNameClash(dependencies, 1)
    /\ RemoteIncludeNameClash(dependencies, 1)
    /\ ErrorIs(result, "DuplicateDependencySource")

----------------------------------------------------------------------------
(* Runs that iterate a Dependencies value, one next() at a time, and runs  *)
(* of check_dependencies on the same collections.                          *)

\* Most entries of each category in these runs.
MaxIterated == 2

InitIterator ==
    /\ op \in {"iterate", "dependencies"}
    /\ pc = "loaded"
    /\ result = NoResult
    /\ spawned = <<>>
    /\ applied = 0
    /\ asked = None
    /\ build = NoBuild
    /\ subprojects = <<>>
    /\ overrides = <<>>
    /\ custom_build_rules = <<>>
    /\ \E rs \in NameLists(MaxIterated) : \E ps \in NameLists(MaxIterated) :
       \E ms \in NameLists(MaxIterated) :
        dependencies = [remote |-> [i \in 1..Len(rs) |-> PlainRemote(rs[i], i)],
                        pkg_config |-> [i \in 1..Len(ps) |-> MakePkgConfig(ps[i], "q", i)],
                        manual |-> [i \in 1..Len(ms) |-> ManualDep(ms[i], i)]]
    /\ \E probes \in PkgProbeChoices(dependencies) :
        env = [which |-> "path", std |-> "exit0", pkg |-> probes]
    \* `self.clone()` is the value the loop iterates.
    /\ traversal = None
    /\ iteration = IF op = "iterate"
                   THEN Some([self |-> dependencies, yielded |-> <<>>, ended |-> FALSE])
                   ELSE None

\* One call of Iterator::next on the iterated value.
IteratorNext ==
    /\ op = "iterate"
    /\ IsSome(iteration)
    /\ ~Unwrap(iteration).ended
    /\ LET it == Unwrap(iteration)
           n == DependenciesNext(it.self)
       IN  iteration' = Some([self |-> n.self,
                              yielded |-> IF IsSome(n.item)
                                          THEN Append(it.yielded, Unwrap(n.item))
                                          ELSE it.yielded,
                              ended |-> ~IsSome(n.item)])
    /\ pc' = "iterating"
    /\ UNCHANGED <<build, env, dependencies, subprojects, overrides, custom_build_rules,
                   op, result, spawned, applied, asked, traversal>>

NextIterator == IteratorNext \/ CheckDependencies

SpecIterator == InitIterator /\ [][NextIterator]_vars

\* The declared entries, each with its category.
DeclaredItems(deps) ==
    {[tag |-> "Remote", dep |-> deps.remote[i]] : i \in 1..Len(deps.remote)}
        \cup {[tag |-> "PkgConfig", dep |-> deps.pkg_config[i]] : i \in 1..Len(deps.pkg_config)}
        \cup {[tag |-> "Manual", dep |-> deps.manual[i]] : i \in 1..Len(deps.manual)}

TagRank(tag) == IF tag = "Remote" THEN 1 ELSE IF tag = "PkgConfig" THEN 2 ELSE 3

\* The spans inside remote entry i.
RemoteSpans(deps, i) == {s \in 0..999 : s >= deps.remote[i].span /\ s < deps.remote[i].span + 10}

(* C21.  Iterating a Dependencies value yields every declared dependency     *)
(* exactly once: the remote entries before any pkg-config entry, those       *)
(* before any manual entry, and then None, with the three collections of the *)
(* iterated value empty.  Hence check_dependencies reports a violation of a  *)
(* remote entry in preference to one of a pkg-config or manual entry.        *)
C21_IterationVisitsEachOnceByCategory ==
    /\ (op = "iterate" /\ IsSome(iteration)) =>
        LET it == Unwrap(iteration) IN
        /\ \A i \in 1..Len(it.yielded) : it.yielded[i] \in DeclaredItems(dependencies)
        /\ \A i, j \in 1..Len(it.yielded) : it.yielded[i] = it.yielded[j] => i = j
        /\ \A i, j \in 1..Len(it.yielded) :
            i < j => TagRank(it.yielded[i].tag) <= TagRank(it.yielded[j].tag)
        /\ Len(it.yielded) + Len(it.self.remote) + Len(it.self.pkg_config)
              + Len(it.self.manual) = Cardinality(DeclaredItems(dependencies))
        /\ it.ended =>
            /\ {it.yielded[i] : i \in 1..Len(it.yielded)} = DeclaredItems(dependencies)
            /\ it.self = NoDependencies
    /\ (DependenciesDone /\ ~RemotesPass(dependencies)) =>
        /\ IsErr(result)
        /\ \E i \in 1..Len(dependencies.remote) :
            Unwrap(result.error.span) \in RemoteSpans(dependencies, i)

\* The iteration of two entries of every category has ended.
C21_Witness ==
    /\ op = "iterate"
    /\ IsSome(iteration)
    /\ Unwrap(iteration).ended
    /\ Len(Unwrap(iteration).yielded) = 6
    /\ Unwrap(iteration).yielded[2].tag = "Remote"
    /\ Unwrap(iteration).yielded[3].tag = "PkgConfig"
    /\ Unwrap(iteration).yielded[6].tag = "Manual"

----------------------------------------------------------------------------
(* C22.  The resolver runs its three phases in order, each only when the    *)
(* one before succeeded: a config with a duplicate subproject name fails     *)
(* with DuplicateSubprojectName whatever else it holds, and a config with an *)
(* unresolved reference and no duplicate name fails with                     *)
(* InvalidSubprojectDependency even when it also holds a cycle.              *)
C22_PhasesInOrder ==
    ResolverDone =>
        /\ ~NoDuplicateSubprojects(subprojects)
            => ErrorIs(result, "DuplicateSubprojectName")
        /\ (/\ NoDuplicateSubprojects(subprojects)
            /\ \E ij \in References(subprojects) : ~Resolves(subprojects, dependencies, ij))
            => ErrorIs(result, "InvalidSubprojectDependency")

----------------------------------------------------------------------------
\* The references to the name of a binary subproject that is no declared dependency.
BinaryReferences(selfs, deps) ==
    {ij \in References(selfs) :
        /\ RefAt(selfs, ij).v.name \in SubprojectNames(selfs) \ LinkableNames(selfs)
        /\ RefAt(selfs, ij).v.name \notin DeclaredDependencyNames(deps)}

(* C23.  The name set check_duplicate_names returns holds exactly the names  *)
(* of the library and header-only subprojects; therefore a reference to the  *)
(* name of a binary subproject that is no declared dependency fails with     *)
(* InvalidSubprojectDependency.                                              *)
C23_OnlyLinkableNamesResolve ==
    (ResolverDone /\ NoDuplicateSubprojects(subprojects)) =>
        /\ check_duplicate_names(subprojects) = Ok(LinkableNames(subprojects))
        /\ BinaryReferences(subprojects, dependencies) # {}
            => ErrorIs(result, "InvalidSubprojectDependency")

----------------------------------------------------------------------------
\* The duplicate-name phase and the reference phase both return Ok.
TwoPhasesPass(selfs, deps) ==
    /\ IsOk(check_duplicate_names(selfs))
    /\ IsOk(check_subproject_dependencies(selfs, deps, check_duplicate_names(selfs).value))

(* C24.  No false cycles: for a subproject list that passes the              *)
(* duplicate-name phase and the reference phase and whose name graph has no  *)
(* directed cycle, also when one library is reached along several paths, the *)
(* third phase returns Ok and never CircularDependency.                      *)
C24_NoFalseCycles ==
    (/\ ResolverDone
     /\ TwoPhasesPass(subprojects, dependencies)
     /\ ~HasCycle(subprojects))
    => /\ IsOk(result)
       /\ IsOk(check_circular_dependencies_and_get_build_order(subprojects))

\* The third subproject is referred to by the first and by the second, the second
\* by the first, and an order was returned.
C24_Witness ==
    /\ ResolverDone
    /\ Len(subprojects) = 3
    /\ NoDuplicateSubprojects(subprojects)
    /\ {<<subprojects[1].name.v, subprojects[2].name.v>>,
        <<subprojects[1].name.v, subprojects[3].name.v>>,
        <<subprojects[2].name.v, subprojects[3].name.v>>} = RefEdges(subprojects)
    /\ IsOk(result)

----------------------------------------------------------------------------
(* C25.  verify_subprojects never panics: for every subproject list and     *)
(* every Dependencies collection it returns Ok or Err; the unreachable!()    *)
(* branch of check_subproject_dependencies is never executed.                *)
C25_ResolverNeverPanics ==
    ResolverDone => (IsOk(result) \/ IsErr(result))

\* The edges between subprojects: A -> B when a subproject named A references B,
\* B is no declared dependency and B names a library or header-only subproject.
SubprojectEdges(selfs, deps) ==
    {<<selfs[ij[1]].name.v, RefAt(selfs, ij).v.name>> : ij \in
        {r \in References(selfs) :
            /\ RefAt(selfs, r).v.name \notin DeclaredDependencyNames(deps)
            /\ RefAt(selfs, r).v.name \in LinkableNames(selfs)}}

(* C26.  A reference that resolves to a declared external dependency is no   *)
(* edge between subprojects: CircularDependency is reported only when there  *)
(* is a directed cycle made of references to library or header-only          *)
(* subprojects alone, so a subproject that references an external dependency *)
(* of its own name is not reported as a cycle.  (Stated for configs whose     *)
(* references are all bare names, which the reference phase checks one by    *)
(* one.)                                                                     *)
C26_ExternalReferencesAreNoEdges ==
    (/\ ResolverDone
     /\ \A ij \in References(subprojects) : RefAt(subprojects, ij).v.form = "Named"
     /\ ErrorIs(result, "CircularDependency")) =>
        \E n \in SubprojectNames(subprojects) :
            n \in Reach(SubprojectEdges(subprojects, dependencies), n)

----------------------------------------------------------------------------
(* C27.  The returned error is a function of the input: every run of the    *)
(* validators on one config returns the same Error (kind, message, primary  *)
(* span); when several override names match no subproject, verify_overrides *)
(* reports the same one in every run.                                       *)
C27_ErrorIsFunctionOfInput ==
    (OverridesDone /\ IsErr(result)) =>
        \A order \in HashOrders :
            LET other == verify_overrides(overrides, subprojects, order) IN
            /\ IsErr(other)
            /\ other.error.error_type = result.error.error_type
            /\ other.error.message = result.error.message
            /\ other.error.span = result.error.span

----------------------------------------------------------------------------
(* The runs of all the validators together: each run is one of the runs of *)
(* check_compiler_details, check_dependencies, verify_subprojects,         *)
(* verify_overrides and verify_custom_build_rules described above.         *)

InitAnyValidator == InitSettings \/ InitDependencies \/ InitSubprojects \/ InitNames

NextAnyValidator == NextSettings \/ NextDependencies \/ NextSubprojects \/ NextNames

SpecAnyValidator == InitAnyValidator /\ [][NextAnyValidator]_vars

\* The error kinds named after a duplicate, and CircularDependency.
SecondaryKinds ==
    {"DuplicateDependencySource", "DuplicateDependencyName", "DuplicateDependencyIncludeName",
     "DuplicateSubprojectName", "DuplicateCustomBuildRuleName", "CircularDependency"}

(* C28 as claimed.  Every Error a validator produces carries a primary span; *)
(* a secondary span and message are present exactly for the duplicate kinds  *)
(* and CircularDependency and absent for every other kind.                   *)
C28_SecondaryExactlyForDuplicateKinds ==
    IsErr(result) =>
        /\ IsSome(result.error.span)
        /\ IsSome(result.error.additional_info)
              <=> result.error.error_type \in SecondaryKinds

(* C28 as amended.  Every Error a validator produces carries a primary span; *)
(* a secondary span and message are present exactly for the duplicate kinds, *)
(* for CircularDependency and for the OverrideNameConflict that reports a    *)
(* repeated override name; they are absent for every other error, the        *)
(* OverrideNameConflict of an override that names no subproject included.    *)
C28_SecondaryExactlyForDuplicates ==
    IsErr(result) =>
        /\ IsSome(result.error.span)
        /\ IsSome(result.error.additional_info)
              <=> \/ result.error.error_type \in SecondaryKinds
                  \/ /\ result.error.error_type = "OverrideNameConflict"
                     /\ op = "overrides"
                     /\ HasDuplicateName(overrides)

\* A repeated override name was reported with the earlier definition.
C28_Witness ==
    /\ OverridesDone
    /\ ErrorIs(result, "OverrideNameConflict")
    /\ IsSome(result.error.span)
    /\ IsSome(result.error.additional_info)
    /\ Unwrap(result.error.additional_info).span < Unwrap(result.error.span)

----------------------------------------------------------------------------
(* The two depth-first passes of                                            *)
(* check_circular_dependencies_and_get_build_order, one statement group at  *)
(* a time.  traversal holds the locals of the function and of the recursive *)
(* calls in progress:                                                       *)
(*   pass     "cycle" while step 3 runs, "sort" while step 4 runs;          *)
(*   i        the position of the `for subproject in selfs` loop;           *)
(*   visited, stack, path, order   the sets and vectors of the code;        *)
(*   frames   the calls in progress, outermost first: the project of each   *)
(*            call, whether it is at its entry or in its loop, and the      *)
(*            position k of its `for dep in dependencies`;                  *)
(*   err      the Err a dfs_cycle_detection call returned, if one did;      *)
(*   entered  the projects that passed the `!visited.contains` test in the  *)
(*            current pass, in order (a record of the run, not a local).    *)

\* Most subprojects and references of a config whose passes are followed.
MaxWalkSubs == 3
MaxWalkRefs == 3

Frame(project) == [project |-> project, at |-> "entry", k |-> 1]
TopFrame(t) == t.frames[Len(t.frames)]
PopFrame(t) == [t EXCEPT !.frames = PopLast(@)]
\* `for dep in dependencies`: the call moves to the next dep and calls itself on it.
CallOnDep(t, dep) ==
    [t EXCEPT !.frames = Append([@ EXCEPT ![Len(@)].k = @ + 1], Frame(dep))]
\* dependency_map.get(project), an absent key giving no loop at all
DepsOf(project, dependency_map) ==
    IF project \in DOMAIN dependency_map THEN dependency_map[project] ELSE <<>>

\* dfs_cycle_detection from its entry to the loop: the stack test, then the
\* visited test and the three insertions.  An Err unwinds every call in progress.
dfs_cycle_detection_entry(t) ==
    LET project == TopFrame(t).project IN
    IF project \in t.stack THEN
        LET path == Append(t.path, project) IN
        [t EXCEPT !.path = path, !.err = Some(Join(path, " -> ")), !.frames = <<>>]
    ELSE IF project \notin t.visited THEN
        [t EXCEPT !.visited = @ \cup {project},
                  !.stack = @ \cup {project},
                  !.path = Append(@, project),
                  !.entered = Append(@, project),
                  !.frames[Len(t.frames)].at = "loop"]
    ELSE PopFrame(t)

\* The loop of dfs_cycle_detection that leaves the project on the recursion
\* stack when the loop is over.
dfs_cycle_detection_body_stack_kept(t, dependency_map) ==
    LET f == TopFrame(t)
        deps == DepsOf(f.project, dependency_map)
    IN  IF f.k <= Len(deps) THEN CallOnDep(t, deps[f.k])
        ELSE PopFrame([t EXCEPT !.path = PopLast(@)])

\* dfs_cycle_detection in its loop: the next recursive call, or, the loop over,
\* stack.remove, path.pop and the return of Ok.
dfs_cycle_detection_body(t, dependency_map) ==
    LET f == TopFrame(t)
        deps == DepsOf(f.project, dependency_map)
    IN  IF f.k <= Len(deps) THEN CallOnDep(t, deps[f.k])
        ELSE PopFrame([t EXCEPT !.stack = @ \ {f.project}, !.path = PopLast(@)])

\* The entry of dfs_topological_sort without the visited test.
dfs_topological_sort_entry_unguarded(t) ==
    LET project == TopFrame(t).project IN
    [t EXCEPT !.visited = @ \cup {project},
              !.entered = Append(@, project),
              !.frames[Len(t.frames)].at = "loop"]

\* dfs_topological_sort from its entry to the loop.
dfs_topological_sort_entry(t) ==
    LET project == TopFrame(t).project IN
    IF project \notin t.visited THEN
        [t EXCEPT !.visited = @ \cup {project},
                  !.entered = Append(@, project),
                  !.frames[Len(t.frames)].at = "loop"]
    ELSE PopFrame(t)

\* dfs_topological_sort in its loop: the next recursive call, or, the loop over,
\* order.push and the return.
dfs_topological_sort_body(t, dependency_map) ==
    LET f == TopFrame(t)
        deps == DepsOf(f.project, dependency_map)
    IN  IF f.k <= Len(deps) THEN CallOnDep(t, deps[f.k])
        ELSE PopFrame([t EXCEPT !.order = Append(@, f.project)])

\* The top-level call has returned Ok: the `for subproject in selfs` loop goes on.
Returned(t) ==
    IF t.frames = <<>> /\ ~IsSome(t.err) THEN [t EXCEPT !.i = @ + 1] ELSE t

\* The configs on which verify_subprojects reaches its third phase.
InitWalk ==
    /\ iteration = None
    /\ asked = None
    /\ overrides = <<>>
    /\ custom_build_rules = <<>>
    /\ op = "walk"
    /\ pc = "loaded"
    /\ result = NoResult
    /\ spawned = <<>>
    /\ applied = 0
    /\ build = NoBuild
    /\ env = NoEnv
    /\ traversal = None
    /\ dependencies \in ResolverDependencies
    /\ \E n \in 0..MaxWalkSubs : \E k \in 0..(IF n = 0 THEN 0 ELSE MaxWalkRefs) :
        \E nm \in NameChoices(n) : \E ty \in [1..n -> SubProjectTypes] :
        \E owner \in Owners(k, n) : \E flat \in [1..k -> RefChoices] :
            subprojects = MakeSubprojects(n, nm, ty, k, owner, flat)
    /\ TwoPhasesPass(subprojects, dependencies)

\* Steps 1 and 2: the dependency map (a function of selfs) and the empty sets.
BeginWalk ==
    /\ op = "walk"
    /\ pc = "loaded"
    /\ traversal' = Some([pass |-> "cycle", i |-> 1, visited |-> {}, stack |-> {},
                          path |-> <<>>, order |-> <<>>, frames |-> <<>>,
                          err |-> None, entered |-> <<>>])
    /\ pc' = "step3"
    /\ UNCHANGED <<build, env, dependencies, subprojects, overrides, custom_build_rules,
                   op, result, spawned, applied, asked, iteration>>

\* Step 3, the `for subproject in selfs` loop between two top-level calls: the
\* call on a project not yet visited, with a fresh path; or the next project;
\* or, the loop over, step 4's empty order and new visited set.
Step3Loop ==
    /\ op = "walk"
    /\ pc = "step3"
    /\ LET t == Unwrap(traversal) IN
        /\ t.frames = <<>>
        /\ IF t.i > Len(subprojects) THEN
               /\ traversal' = Some([t EXCEPT !.pass = "sort", !.i = 1, !.visited = {},
                                              !.order = <<>>, !.entered = <<>>])
               /\ pc' = "step4"
           ELSE
               /\ traversal' =
                    Some(IF subprojects[t.i].name.v \notin t.visited
                         THEN [t EXCEPT !.path = <<>>,
                                        !.frames = <<Frame(subprojects[t.i].name.v)>>]
                         ELSE [t EXCEPT !.i = @ + 1])
               /\ pc' = "step3"
    /\ UNCHANGED <<build, env, dependencies, subprojects, overrides, custom_build_rules,
                   op, result, spawned, applied, asked, iteration>>

\* Step 3, the entry of the innermost dfs_cycle_detection call; the Err of a
\* call becomes the CircularDependency error of the function.
Step3Entry ==
    /\ op = "walk"
    /\ pc = "step3"
    /\ LET t == Unwrap(traversal) IN
        /\ t.frames # <<>>
        /\ TopFrame(t).at = "entry"
        /\ LET n == Returned(dfs_cycle_detection_entry(t))
               name == subprojects[t.i].name
           IN  /\ traversal' = Some(n)
               /\ IF IsSome(n.err) THEN
                      /\ result' =
                           Err(Error("CircularDependency",
                                     "Circular dependency detected in subproject: " \o name.v,
                                     Some(name.span),
                                     Some(AdditionalInfo(name.span,
                                          "Dependency cycle: " \o Unwrap(n.err)))))
                      /\ pc' = "done"
                  ELSE UNCHANGED <<result, pc>>
    /\ UNCHANGED <<build, env, dependencies, subprojects, overrides, custom_build_rules,
                   op, spawned, applied, asked, iteration>>

\* Step 3, the loop of the innermost dfs_cycle_detection call.
Step3Body ==
    /\ op = "walk"
    /\ pc = "step3"
    /\ LET t == Unwrap(traversal) IN
        /\ t.frames # <<>>
        /\ TopFrame(t).at = "loop"
        /\ traversal' = Some(Returned(dfs_cycle_detection_body(t, DependencyMap(subprojects))))
    /\ UNCHANGED <<build, env, dependencies, subprojects, overrides, custom_build_rules,
                   op, pc, result, spawned, applied, asked, iteration>>

\* Step 4, the `for subproject in selfs` loop between two top-level calls; the
\* loop over, steps 5 and 6 and the return of the build order.
Step4Loop ==
    /\ op = "walk"
    /\ pc = "step4"
    /\ LET t == Unwrap(traversal) IN
        /\ t.frames = <<>>
        /\ IF t.i > Len(subprojects) THEN
               /\ result' = Ok(BuildOrder(FinalOrder(t.order), subprojects))
               /\ pc' = "done"
               /\ UNCHANGED traversal
           ELSE
               /\ traversal' =
                    Some(IF subprojects[t.i].name.v \notin t.visited
                         THEN [t EXCEPT !.frames = <<Frame(subprojects[t.i].name.v)>>]
                         ELSE [t EXCEPT !.i = @ + 1])
               /\ UNCHANGED <<result, pc>>
    /\ UNCHANGED <<build, env, dependencies, subprojects, overrides, custom_build_rules,
                   op, spawned, applied, asked, iteration>>

\* Step 4, the entry of the innermost dfs_topological_sort call.
Step4Entry ==
    /\ op = "walk"
    /\ pc = "step4"
    /\ LET t == Unwrap(traversal) IN
        /\ t.frames # <<>>
        /\ TopFrame(t).at = "entry"
        /\ traversal' = Some(Returned(dfs_topological_sort_entry(t)))
    /\ UNCHANGED <<build, env, dependencies, subprojects, overrides, custom_build_rules,
                   op, pc, result, spawned, applied, asked, iteration>>

\* Step 4, the loop of the innermost dfs_topological_sort call.
Step4Body ==
    /\ op = "walk"
    /\ pc = "step4"
    /\ LET t == Unwrap(traversal) IN
        /\ t.frames # <<>>
        /\ TopFrame(t).at = "loop"
        /\ traversal' = Some(Returned(dfs_topological_sort_body(t, DependencyMap(subprojects))))
    /\ UNCHANGED <<build, env, dependencies, subprojects, overrides, custom_build_rules,
                   op, pc, result, spawned, applied, asked, iteration>>

NextWalk ==
    \/ BeginWalk
    \/ Step3Loop
    \/ Step3Entry
    \/ Step3Body
    \/ Step4Loop
    \/ Step4Entry
    \/ Step4Body

\* The function is sequential code: a step that can be taken is taken.
SpecWalk == InitWalk /\ [][NextWalk]_vars /\ WF_vars(NextWalk)

WalkDone == op = "walk" /\ pc = "done"
Walking == op = "walk" /\ IsSome(traversal)

\* No project passed the visited test twice in the current pass.
EnteredOnce(t) ==
    \A x, y \in 1..Len(t.entered) : t.entered[x] = t.entered[y] => x = y

\* The names some subproject references.
ReferencedNames(selfs) == {RefAt(selfs, ij).v.name : ij \in References(selfs)}

(* C29.  Both depth-first passes terminate on every subproject list the      *)
(* third phase is given, graphs with cycles, self-references and references  *)
(* to names that are not subprojects included: in each pass no project       *)
(* passes the visited test twice, the result is the one the function         *)
(* computes and is Ok or Err, and every run reaches its end.                 *)
C29_PassesTerminate ==
    /\ [](Walking => EnteredOnce(Unwrap(traversal)))
    /\ [](WalkDone => /\ IsOk(result) \/ IsErr(result)
                      /\ result = check_circular_dependencies_and_get_build_order(subprojects))
    /\ <>WalkDone

\* Both passes are over for a config with a reference to a name that is no
\* subproject, which the pass entered, and with a subproject that is referenced
\* twice.
C29_Witness ==
    /\ WalkDone
    /\ IsOk(result)
    /\ ReferencedNames(subprojects) \ SubprojectNames(subprojects) # {}
    /\ \E x, y \in References(subprojects) :
          /\ x # y
          /\ RefAt(subprojects, x).v.name = RefAt(subprojects, y).v.name
          /\ RefAt(subprojects, x).v.name \in SubprojectNames(subprojects)
    /\ \E x \in 1..Len(Unwrap(traversal).entered) :
          Unwrap(traversal).entered[x] \notin SubprojectNames(subprojects)

\* The names in the path vector.
PathNames(t) == {t.path[x] : x \in 1..Len(t.path)}

(* C30.  During cycle detection the recursion-stack set equals the set of    *)
(* names in the path vector, every name on the stack is in the visited set,  *)
(* and when a top-level dfs_cycle_detection call has returned Ok the stack   *)
(* and the path are empty again.                                             *)
C30_StackIsPath ==
    (Walking /\ Unwrap(traversal).pass = "cycle") =>
        LET t == Unwrap(traversal) IN
        /\ t.stack = PathNames(t)
        /\ t.stack \subseteq t.visited
        /\ (t.frames = <<>> /\ ~IsSome(t.err)) => (t.stack = {} /\ t.path = <<>>)

\* A top-level call that went three calls deep has returned Ok.
C30_Witness ==
    /\ Walking
    /\ Unwrap(traversal).pass = "cycle"
    /\ Unwrap(traversal).frames = <<>>
    /\ ~IsSome(Unwrap(traversal).err)
    /\ Unwrap(traversal).i = 2
    /\ Len(Unwrap(traversal).entered) = 3
    /\ Unwrap(traversal).stack = {}
    /\ Unwrap(traversal).path = <<>>
    /\ subprojects[1].name.v \in Unwrap(traversal).visited

====
